---- MODULE Spec2Model ----
(***************************************************************************)
(* Model of the mock payment backend: the PaymentTokenizer and the        *)
(* PaymentProcessor services (tokenizer.py, payment_processor.py), the    *)
(* request validation of models.py and the REST handlers of main.py.      *)
(*                                                                         *)
(* Conventions                                                             *)
(*  - amounts are counted in thousandths of a currency unit, so the float *)
(*    literal 0.01 is 10 and 10000 is 10000000; comparisons are exact;    *)
(*  - a value of random.random() is counted in hundredths, 0..99;         *)
(*  - the clock (datetime.utcnow()) is counted in hours;                   *)
(*  - a Python dict is the sequence of its entries in insertion order;    *)
(*  - a generated id (secrets.token_hex) is fresh: it differs from every  *)
(*    id generated before.  Ids are only ever compared for equality, so   *)
(*    the k-th id generated is named by the number k.                     *)
(***************************************************************************)
EXTENDS Integers, Sequences, FiniteSets, TLC

VARIABLES
    tokens,        \* PaymentTokenizer.tokens : dict token -> token record
    transactions,  \* PaymentProcessor.transactions : dict id -> record
    now,           \* the value datetime.utcnow() returns
    last,          \* the last call made: its arguments and what it returned
    calls,         \* refund_transaction calls in progress, by thread
    stdin,         \* mcp_server_stdio: the lines not read yet
    stdout         \* mcp_server_stdio: the lines written

vars == <<tokens, transactions, now, last, calls, stdin, stdout>>

----------------------------------------------------------------------------
(* Python values *)

\* Python's None, as returned by dict.get on a missing key.
None == [absent |-> TRUE]

\* The text json/pydantic show for an Optional[str] that is None.
NoDescription == "<None>"

\* dict: the sequence of entries [key, value], in insertion order.
EmptyDict == << >>

dict_keys(d) == {d[i].key : i \in 1..Len(d)}

dict_has(d, k) == k \in dict_keys(d)

dict_index(d, k) == CHOOSE i \in 1..Len(d) : d[i].key = k

\* d[k]
dict_item(d, k) == d[dict_index(d, k)].value

\* d.get(k)
dict_get(d, k) == IF dict_has(d, k) THEN dict_item(d, k) ELSE None

\* d[k] = v : an existing key keeps its position, a new key goes last.
dict_set(d, k, v) ==
    IF dict_has(d, k)
    THEN [d EXCEPT ![dict_index(d, k)] = [key |-> k, value |-> v]]
    ELSE Append(d, [key |-> k, value |-> v])

\* list(d.values())
dict_values(d) == [i \in 1..Len(d) |-> d[i].value]

\* datetime.isoformat() and datetime.fromisoformat(): the text of a time
\* and the time that text denotes.
isoformat(t) == <<"iso", t>>

fromisoformat(s) == s[2]

\* s[-n:] of a Python string or list
last_n(s, n) == SubSeq(s, IF Len(s) > n THEN Len(s) - n + 1 ELSE 1, Len(s))

----------------------------------------------------------------------------
(* tokenizer.py : PaymentTokenizer *)

\* timedelta(hours=24), the lifetime of a token
TOKEN_LIFETIME_HOURS == 24

\* The characters \s and - of the pattern [\s-].
SpaceOrDash == {" ", "\t", "\n", "\r", "-"}

DigitChars == {"0", "1", "2", "3", "4", "5", "6", "7", "8", "9"}

\* re.sub(r"[\s-]", "", card_number)
clean_number(card_number) ==
    LET keep(ch) == ch \notin SpaceOrDash
    IN  SelectSeq(card_number, keep)

\* re.match(r"^4", s)
match_visa(s) == Len(s) >= 1 /\ s[1] = "4"

\* Mutant of match_mastercard: the range [0-5] in place of [1-5].
match_mastercard_from_50(s) ==
    Len(s) >= 2 /\ s[1] = "5" /\ s[2] \in {"0", "1", "2", "3", "4", "5"}

\* re.match(r"^5[1-5]", s)
match_mastercard(s) ==
    Len(s) >= 2 /\ s[1] = "5" /\ s[2] \in {"1", "2", "3", "4", "5"}

\* re.match(r"^3[47]", s)
match_amex(s) == Len(s) >= 2 /\ s[1] = "3" /\ s[2] \in {"4", "7"}

\* re.match(r"^6(?:011|5)", s)
match_discover(s) ==
    /\ Len(s) >= 2
    /\ s[1] = "6"
    /\ \/ s[2] = "5"
       \/ Len(s) >= 4 /\ SubSeq(s, 2, 4) = <<"0", "1", "1">>

_identify_card_type(card_number) ==
    LET clean == clean_number(card_number)
    IN  IF match_visa(clean) THEN "Visa"
        ELSE IF match_mastercard(clean) THEN "Mastercard"
        ELSE IF match_amex(clean) THEN "American Express"
        ELSE IF match_discover(clean) THEN "Discover"
        ELSE "Unknown"

\* hashlib.sha256(card_number.encode()).hexdigest(): a function of the
\* card number alone, taken to be injective.
sha256_hex(card_number) == <<"sha256", card_number>>

\* "tok_" + 32 hex characters of a hash over 16 fresh random bytes: the
\* k-th token generated.  Every token generated is stored and none is
\* removed, so k is one more than the number of stored tokens.
_generate_token(store) == <<"tok", Len(store) + 1>>

\* tokenize_card, the clock reading t_expiry at line 37 and t_created at
\* line 49: [tokens |-> the store afterwards, result |-> what is returned]
\* The cvv argument is never read.
tokenize_card(store, card_number, card_holder, expiry_month, expiry_year, t_expiry, t_created) ==
    LET token == _generate_token(store)
        card_type == _identify_card_type(card_number)
        last_four == last_n(card_number, 4)
        expires_at == t_expiry + TOKEN_LIFETIME_HOURS
        token_data ==
            [token |-> token,
             card_number_hash |-> sha256_hex(card_number),
             last_four_digits |-> last_four,
             card_holder |-> card_holder,
             expiry_month |-> expiry_month,
             expiry_year |-> expiry_year,
             card_type |-> card_type,
             expires_at |-> isoformat(expires_at),
             created_at |-> isoformat(t_created),
             is_valid |-> TRUE]
    IN  [tokens |-> dict_set(store, token, token_data),
         result |-> [token |-> token,
                     last_four_digits |-> last_four,
                     card_type |-> card_type,
                     expires_at |-> isoformat(expires_at)]]

\* Mutant of is_expired: expired from the very hour of expiry.
is_expired_at_expiry(t, token_data) == t >= fromisoformat(token_data.expires_at)

\* the test of line 108: datetime.utcnow() > expires_at
is_expired(t, token_data) == t > fromisoformat(token_data.expires_at)

\* Mutant of validate_token: an accepted token lives 24 hours longer.
validate_token_sliding(store, token, t) ==
    IF ~dict_has(store, token)
    THEN [tokens |-> store, result |-> None]
    ELSE LET token_data == dict_item(store, token)
             renewed == [token_data EXCEPT !.expires_at = isoformat(t + TOKEN_LIFETIME_HOURS)]
         IN  IF ~token_data.is_valid
             THEN [tokens |-> store, result |-> None]
             ELSE IF is_expired(t, token_data)
             THEN [tokens |-> dict_set(store, token,
                                  [token_data EXCEPT !.is_valid = FALSE]),
                   result |-> None]
             ELSE [tokens |-> dict_set(store, token, renewed), result |-> renewed]

\* Mutant of validate_token: a token found expired is turned away once
\* and given a new lifetime.
validate_token_renewing(store, token, t) ==
    IF ~dict_has(store, token)
    THEN [tokens |-> store, result |-> None]
    ELSE LET token_data == dict_item(store, token)
         IN  IF ~token_data.is_valid
             THEN [tokens |-> store, result |-> None]
             ELSE IF is_expired(t, token_data)
             THEN [tokens |-> dict_set(store, token,
                                  [token_data EXCEPT !.expires_at = isoformat(t + TOKEN_LIFETIME_HOURS)]),
                   result |-> None]
             ELSE [tokens |-> store, result |-> token_data]

\* Mutant of validate_token: a token is accepted once.
validate_token_single_use(store, token, t) ==
    IF ~dict_has(store, token)
    THEN [tokens |-> store, result |-> None]
    ELSE LET token_data == dict_item(store, token)
         IN  IF ~token_data.is_valid
             THEN [tokens |-> store, result |-> None]
             ELSE IF is_expired(t, token_data)
             THEN [tokens |-> dict_set(store, token,
                                  [token_data EXCEPT !.is_valid = FALSE]),
                   result |-> None]
             ELSE [tokens |-> dict_set(store, token,
                                  [token_data EXCEPT !.is_valid = FALSE]),
                   result |-> token_data]

\* Mutant of validate_token: an expired token is swept from the store.
validate_token_evicting(store, token, t) ==
    IF ~dict_has(store, token)
    THEN [tokens |-> store, result |-> None]
    ELSE LET token_data == dict_item(store, token)
             others(entry) == entry.key # token
         IN  IF ~token_data.is_valid
             THEN [tokens |-> store, result |-> None]
             ELSE IF is_expired(t, token_data)
             THEN [tokens |-> SelectSeq(store, others), result |-> None]
             ELSE [tokens |-> store, result |-> token_data]

\* validate_token at clock reading t
validate_token(store, token, t) ==
    IF ~dict_has(store, token)
    THEN [tokens |-> store, result |-> None]
    ELSE LET token_data == dict_item(store, token)
         IN  IF ~token_data.is_valid
             THEN [tokens |-> store, result |-> None]
             ELSE IF is_expired(t, token_data)
             THEN [tokens |-> dict_set(store, token,
                                  [token_data EXCEPT !.is_valid = FALSE]),
                   result |-> None]
             ELSE [tokens |-> store, result |-> token_data]

\* Mutant of get_token_info: the flag returned is brought up to date.
get_token_info_up_to_date(store, token) ==
    IF dict_has(store, token) /\ is_expired(now, dict_item(store, token))
    THEN [dict_item(store, token) EXCEPT !.is_valid = FALSE]
    ELSE dict_get(store, token)

get_token_info(store, token) == dict_get(store, token)

----------------------------------------------------------------------------
(* payment_processor.py : PaymentProcessor *)

\* PaymentStatus
SUCCESS == "success"

FAILED == "failed"

PENDING == "pending"

\* The special amounts 0.01, 0.02, 0.03 and 10000, in thousandths.
AMOUNT_INSUFFICIENT_FUNDS == 10

AMOUNT_CARD_DECLINED == 20

AMOUNT_PENDING_VERIFICATION == 30

AMOUNT_MANUAL_REVIEW == 10000000

\* The thresholds 0.90 and 0.95 of the random outcome, in hundredths.
OUTCOME_SUCCESS_BELOW == 90

OUTCOME_FAILED_BELOW == 95

\* The values random.random() returns: [0, 1), in hundredths.
RandomValues == 0..99

\* Mutant of is_large_amount: the boundary 10000 left out.
is_large_amount_strict(amount) == amount > AMOUNT_MANUAL_REVIEW

\* line 82: amount >= 10000
is_large_amount(amount) == amount >= AMOUNT_MANUAL_REVIEW

\* Mutant of special_amount_result: the messages of 0.01 and 0.02 swapped.
special_amount_result_swapped(amount) ==
    IF amount = AMOUNT_INSUFFICIENT_FUNDS
    THEN [status |-> FAILED, message |-> "Card declined", drawn |-> FALSE]
    ELSE IF amount = AMOUNT_CARD_DECLINED
    THEN [status |-> FAILED, message |-> "Insufficient funds", drawn |-> FALSE]
    ELSE IF amount = AMOUNT_PENDING_VERIFICATION
    THEN [status |-> PENDING, message |-> "Payment pending verification",
          drawn |-> FALSE]
    ELSE IF amount >= AMOUNT_MANUAL_REVIEW
    THEN [status |-> PENDING,
          message |-> "Large transaction - manual review required",
          drawn |-> FALSE]
    ELSE None

\* Mutant of special_amount_result: a payment of 0.03 goes through.
special_amount_result_verified(amount) ==
    IF amount = AMOUNT_INSUFFICIENT_FUNDS
    THEN [status |-> FAILED, message |-> "Insufficient funds", drawn |-> FALSE]
    ELSE IF amount = AMOUNT_CARD_DECLINED
    THEN [status |-> FAILED, message |-> "Card declined", drawn |-> FALSE]
    ELSE IF amount = AMOUNT_PENDING_VERIFICATION
    THEN [status |-> SUCCESS, message |-> "Payment processed successfully",
          drawn |-> FALSE]
    ELSE IF amount >= AMOUNT_MANUAL_REVIEW
    THEN [status |-> PENDING,
          message |-> "Large transaction - manual review required",
          drawn |-> FALSE]
    ELSE None

\* lines 76-83: the result for a special amount, None for any other;
\* random.random() is not called (drawn)
special_amount_result(amount) ==
    IF amount = AMOUNT_INSUFFICIENT_FUNDS
    THEN [status |-> FAILED, message |-> "Insufficient funds", drawn |-> FALSE]
    ELSE IF amount = AMOUNT_CARD_DECLINED
    THEN [status |-> FAILED, message |-> "Card declined", drawn |-> FALSE]
    ELSE IF amount = AMOUNT_PENDING_VERIFICATION
    THEN [status |-> PENDING, message |-> "Payment pending verification",
          drawn |-> FALSE]
    ELSE IF is_large_amount(amount)
    THEN [status |-> PENDING,
          message |-> "Large transaction - manual review required",
          drawn |-> FALSE]
    ELSE None

\* Mutant of random_outcome_result: <= in place of <, so that each
\* threshold falls into the lower range.
random_outcome_result_inclusive(outcome) ==
    IF outcome <= OUTCOME_SUCCESS_BELOW
    THEN [status |-> SUCCESS, message |-> "Payment processed successfully",
          drawn |-> TRUE]
    ELSE IF outcome <= OUTCOME_FAILED_BELOW
    THEN [status |-> FAILED, message |-> "Card declined by issuer",
          drawn |-> TRUE]
    ELSE [status |-> PENDING, message |-> "Payment under review",
          drawn |-> TRUE]

\* lines 86-93: the result for the value outcome of random.random()
random_outcome_result(outcome) ==
    IF outcome < OUTCOME_SUCCESS_BELOW
    THEN [status |-> SUCCESS, message |-> "Payment processed successfully",
          drawn |-> TRUE]
    ELSE IF outcome < OUTCOME_FAILED_BELOW
    THEN [status |-> FAILED, message |-> "Card declined by issuer",
          drawn |-> TRUE]
    ELSE [status |-> PENDING, message |-> "Payment under review",
          drawn |-> TRUE]

\* _simulate_processing, where outcome is the value random.random()
\* returns if it is called; drawn tells whether it was called.
_simulate_processing(amount, outcome) ==
    IF special_amount_result(amount) # None
    THEN special_amount_result(amount)
    ELSE random_outcome_result(outcome)

\* "txn_" + timestamp + 16 fresh random hex characters: the k-th id
\* generated.  Every id generated is stored and none is removed, so k is
\* one more than the number of stored records.
_generate_transaction_id(store) == <<"txn", Len(store) + 1>>

\* Mutant of card_info_of: the token metadata is not looked at.
card_info_placeholders(token_data) ==
    [last_four |-> <<"X", "X", "X", "X">>, card_type |-> "Unknown"]

\* lines 51-56: the card_info of a transaction
card_info_of(token_data) ==
    [last_four |-> IF token_data # None THEN token_data.last_four_digits
                   ELSE <<"X", "X", "X", "X">>,
     card_type |-> IF token_data # None THEN token_data.card_type
                   ELSE "Unknown"]

\* process_payment at clock reading t, outcome being what random.random()
\* returns: [transactions |-> the store afterwards, result |-> what is
\* returned, drawn |-> whether random.random() was called]
process_payment(store, token, amount, currency, customer_id, description, token_data, outcome, t) ==
    LET transaction_id == _generate_transaction_id(store)
        sim == _simulate_processing(amount, outcome)
        transaction ==
            [transaction_id |-> transaction_id,
             token |-> token,
             amount |-> amount,
             currency |-> currency,
             customer_id |-> customer_id,
             description |-> description,
             status |-> sim.status,
             message |-> sim.message,
             processed_at |-> isoformat(t),
             card_info |-> card_info_of(token_data)]
    IN  [transactions |-> dict_set(store, transaction_id, transaction),
         result |-> transaction,
         drawn |-> sim.drawn]

\* Mutant of get_transaction: the newest record stands in for a missing one.
get_transaction_or_newest(store, transaction_id) ==
    IF dict_has(store, transaction_id) THEN dict_item(store, transaction_id)
    ELSE IF Len(store) > 0 THEN store[Len(store)].value
    ELSE None

get_transaction(store, transaction_id) == dict_get(store, transaction_id)

\* Mutant of get_customer_transactions: payments only.
get_customer_transactions_payments_only(store, customer_id) ==
    LET matches(tx) == tx.customer_id = customer_id /\ "transaction_id" \in DOMAIN tx
    IN  SelectSeq(dict_values(store), matches)

\* Mutant of get_customer_transactions: newest first.
get_customer_transactions_newest_first(store, customer_id) ==
    LET matches(tx) == tx.customer_id = customer_id
        found == SelectSeq(dict_values(store), matches)
    IN  [i \in 1..Len(found) |-> found[Len(found) + 1 - i]]

get_customer_transactions(store, customer_id) ==
    LET matches(tx) == tx.customer_id = customer_id
    IN  SelectSeq(dict_values(store), matches)

\* lines 113-116: the result for a transaction that is not successful
NotRefundable ==
    [success |-> FALSE,
     message |-> "Only successful transactions can be refunded"]

\* Mutant of mark_refunded: the refunded flag is not set.
mark_refunded_no_flag(transaction, refund_id) ==
    [refund_id |-> refund_id] @@ transaction

\* Mutant of mark_refunded: the status of the original changes too.
mark_refunded_with_status(transaction, refund_id) ==
    [refunded |-> TRUE, refund_id |-> refund_id] @@ [transaction EXCEPT !.status = "refunded"]

\* lines 134-136: transaction["refunded"] = True; transaction["refund_id"] = ...
mark_refunded(transaction, refund_id) ==
    [refunded |-> TRUE, refund_id |-> refund_id] @@ transaction

\* Mutant of is_refundable: a transaction is refunded once only.
is_refundable_once(transaction) ==
    transaction.status = SUCCESS /\ "refunded" \notin DOMAIN transaction

\* Mutant of is_refundable: only a pending transaction is turned away.
is_refundable_unless_pending(transaction) == transaction.status # PENDING

\* Mutant of is_refundable: only a failed transaction is turned away.
is_refundable_unless_failed(transaction) == transaction.status # FAILED

\* Mutant of is_refundable: a refund record is turned away.
is_refundable_payments_only(transaction) ==
    transaction.status = SUCCESS /\ "transaction_id" \in DOMAIN transaction

\* line 112: the transaction may be refunded
is_refundable(transaction) == transaction.status = SUCCESS

\* Mutant of refund_transaction: the original is marked and the refund
\* record is not stored.
refund_transaction_without_record(store, transaction_id, t) ==
    LET transaction == dict_get(store, transaction_id)
    IN  IF transaction = None
        THEN [transactions |-> store, result |-> None]
        ELSE IF ~is_refundable(transaction)
        THEN [transactions |-> store, result |-> NotRefundable]
        ELSE LET refund_id == _generate_transaction_id(store)
                 refund ==
                     [refund_id |-> refund_id,
                      original_transaction_id |-> transaction_id,
                      amount |-> transaction.amount,
                      currency |-> transaction.currency,
                      customer_id |-> transaction.customer_id,
                      status |-> SUCCESS,
                      message |-> "Refund processed successfully",
                      processed_at |-> isoformat(t)]
             IN  [transactions |->
                      dict_set(store, transaction_id,
                               mark_refunded(transaction, refund_id)),
                  result |-> refund]

\* refund_transaction at clock reading t
refund_transaction(store, transaction_id, t) ==
    LET transaction == dict_get(store, transaction_id)
    IN  IF transaction = None
        THEN [transactions |-> store, result |-> None]
        ELSE IF ~is_refundable(transaction)
        THEN [transactions |-> store, result |-> NotRefundable]
        ELSE LET refund_id == _generate_transaction_id(store)
                 refund ==
                     [refund_id |-> refund_id,
                      original_transaction_id |-> transaction_id,
                      amount |-> transaction.amount,
                      currency |-> transaction.currency,
                      customer_id |-> transaction.customer_id,
                      status |-> SUCCESS,
                      message |-> "Refund processed successfully",
                      processed_at |-> isoformat(t)]
                 stored == dict_set(store, refund_id, refund)
             IN  [transactions |->
                      dict_set(stored, transaction_id,
                               mark_refunded(transaction, refund_id)),
                  result |-> refund]

----------------------------------------------------------------------------
(* payment_processor.py : refund_transaction statement by statement, as   *)
(* a thread runs it beside other threads.  The local variable transaction *)
(* refers to the dict held in the store, so a read of transaction[...]    *)
(* reads the stored record as it is now and a write to it writes the      *)
(* stored record.  cs is the calls in progress.                            *)

\* line 119: the id generated among ids that were generated by other
\* threads and are not stored yet
fresh_transaction_id(store, cs) ==
    <<"txn", Len(store) + Cardinality({q \in DOMAIN cs : cs[q].pc = "store"}) + 1>>

\* lines 120-129: the refund record, read from the stored transaction
refund_record(store, transaction_id, refund_id, t) ==
    [refund_id |-> refund_id,
     original_transaction_id |-> transaction_id,
     amount |-> dict_item(store, transaction_id).amount,
     currency |-> dict_item(store, transaction_id).currency,
     customer_id |-> dict_item(store, transaction_id).customer_id,
     status |-> SUCCESS,
     message |-> "Refund processed successfully",
     processed_at |-> isoformat(t)]

\* line 135: transaction["refunded"] = True
refund_flag(store, transaction_id) ==
    dict_set(store, transaction_id, [refunded |-> TRUE] @@ dict_item(store, transaction_id))

\* Mutant of refund_link: a refund_id that is there is kept.
refund_link_first_wins(store, transaction_id, refund_id) ==
    dict_set(store, transaction_id, dict_item(store, transaction_id) @@ [refund_id |-> refund_id])

\* line 136: transaction["refund_id"] = refund_id
refund_link(store, transaction_id, refund_id) ==
    dict_set(store, transaction_id, [refund_id |-> refund_id] @@ dict_item(store, transaction_id))

----------------------------------------------------------------------------
(* models.py : the validation of a request, before a handler runs *)

\* str.isdigit(): not empty, digits only
isdigit(s) == Len(s) >= 1 /\ \A i \in 1..Len(s) : s[i] \in DigitChars

\* PaymentCard.validate_card_number accepts v (and returns the clean number)
card_number_ok(v) ==
    LET clean == clean_number(v)
    IN  isdigit(clean) /\ Len(clean) \in {15, 16}

\* PaymentCard.cvv: min_length=3, max_length=4, and validate_cvv
cvv_ok(v) == Len(v) >= 3 /\ Len(v) <= 4 /\ isdigit(v)

\* PaymentCard: every field constraint and validator
payment_card_ok(card) ==
    /\ card_number_ok(card.card_number)
    /\ card.expiry_month >= 1 /\ card.expiry_month <= 12
    /\ card.expiry_year >= 2024
    /\ cvv_ok(card.cvv)

\* Mutant of payment_request_ok: ge=0 in place of gt=0.
payment_request_ok_nonnegative(amount) == amount >= 0

\* PaymentRequest.amount: gt=0
payment_request_ok(amount) == amount > 0

----------------------------------------------------------------------------
(* main.py : the REST handlers.  Each returns the two stores afterwards,  *)
(* the HTTP status and the body; core is what the service call returned.  *)

\* Customer.customer_id left out of a tokenize request
NoCustomerId == "<None>"

\* POST /api/v1/tokenize.  A request that fails validation is answered 422
\* by the framework and the handler does not run.
api_tokenize_payment(toks, card, customer_id, t_expiry, t_created) ==
    IF ~payment_card_ok(card)
    THEN [tokens |-> toks, status |-> 422, core |-> None, body |-> None]
    ELSE LET r == tokenize_card(toks, clean_number(card.card_number), card.card_holder, card.expiry_month, card.expiry_year, t_expiry, t_created)
         IN  [tokens |-> r.tokens,
              status |-> 201,
              core |-> r.result,
              body |-> [token |-> r.result.token,
                        last_four_digits |-> r.result.last_four_digits,
                        card_type |-> r.result.card_type,
                        expires_at |-> r.result.expires_at,
                        customer_id |-> IF customer_id = NoCustomerId
                                        THEN <<"cust_", t_created>>
                                        ELSE customer_id,
                        created_at |-> isoformat(t_created)]]

\* Mutant of token_rejected: whatever validate_token returns is accepted.
token_rejected_never(token_data) == FALSE

\* line 134: if not token_data
token_rejected(token_data) == token_data = None

\* Mutant of payment_http_status: a failed payment is answered as an error.
payment_http_status_by_outcome(transaction) ==
    IF transaction.status = FAILED THEN 402 ELSE 201

\* line 112: status_code=status.HTTP_201_CREATED, whatever the transaction
payment_http_status(transaction) == 201

\* POST /api/v1/payments
api_process_payment(toks, txs, token, amount, currency, customer_id, description, outcome, t) ==
    IF ~payment_request_ok(amount)
    THEN [tokens |-> toks, transactions |-> txs, status |-> 422,
          core |-> None, body |-> None]
    ELSE LET v == validate_token(toks, token, t)
         IN  IF token_rejected(v.result)
             THEN [tokens |-> v.tokens, transactions |-> txs, status |-> 401,
                   core |-> None,
                   body |-> [detail |-> "Invalid or expired token"]]
             ELSE LET p == process_payment(txs, token, amount, currency, customer_id, description, v.result, outcome, t)
                  IN  [tokens |-> v.tokens,
                       transactions |-> p.transactions,
                       status |-> payment_http_status(p.result),
                       core |-> p.result,
                       body |-> [transaction_id |-> p.result.transaction_id,
                                 status |-> p.result.status,
                                 amount |-> p.result.amount,
                                 currency |-> p.result.currency,
                                 token |-> token,
                                 customer_id |-> p.result.customer_id,
                                 message |-> p.result.message,
                                 processed_at |-> p.result.processed_at]]

\* GET /api/v1/transactions/{transaction_id}
api_get_transaction(txs, transaction_id) ==
    LET transaction == get_transaction(txs, transaction_id)
    IN  IF transaction = None
        THEN [status |-> 404, core |-> None,
              body |-> [detail |-> "Transaction not found"]]
        ELSE [status |-> 200, core |-> transaction, body |-> transaction]

\* GET /api/v1/customers/{customer_id}/transactions
api_get_customer_transactions(txs, customer_id) ==
    LET found == get_customer_transactions(txs, customer_id)
    IN  [status |-> 200,
         core |-> found,
         body |-> [customer_id |-> customer_id,
                   transaction_count |-> Len(found),
                   transactions |-> found]]

\* Mutant of refund_http_status: absence is not looked for.
refund_http_status_no_404(refund) ==
    IF refund = None THEN 200
    ELSE IF "success" \in DOMAIN refund /\ ~refund.success THEN 400
    ELSE 200

\* lines 211-222: the status the refund handler answers with
refund_http_status(refund) ==
    IF refund = None THEN 404
    ELSE IF "success" \in DOMAIN refund /\ ~refund.success THEN 400
    ELSE 200

\* POST /api/v1/transactions/{transaction_id}/refund
api_refund_transaction(txs, transaction_id, t) ==
    LET r == refund_transaction(txs, transaction_id, t)
        refund == r.result
        status == refund_http_status(refund)
    IN  [transactions |-> r.transactions,
         status |-> status,
         core |-> refund,
         body |-> IF status = 404 THEN [detail |-> "Transaction not found"]
                  ELSE IF status = 400 THEN [detail |-> refund.message]
                  ELSE refund]

\* Mutant of safe_info: the stored record is returned as it is.
safe_info_unstripped(token_info) == token_info

\* lines 238-245: the fields of the token record that are returned
safe_info(token_info) ==
    [token |-> token_info.token,
     last_four_digits |-> token_info.last_four_digits,
     card_type |-> token_info.card_type,
     expires_at |-> token_info.expires_at,
     created_at |-> token_info.created_at,
     is_valid |-> token_info.is_valid]

\* GET /api/v1/tokens/{token}
api_get_token_info(toks, token) ==
    LET token_info == get_token_info(toks, token)
    IN  IF token_info = None
        THEN [status |-> 404, core |-> None,
              body |-> [detail |-> "Token not found"]]
        ELSE [status |-> 200,
              core |-> token_info,
              body |-> safe_info(token_info)]

----------------------------------------------------------------------------
(* mcp_server.py and mcp_server_stdio.py: the MCP server, a process of    *)
(* its own that reaches the REST handlers over HTTP and speaks JSON-RPC   *)
(* on stdin and stdout.  A JSON object is a record, JSON null is None.    *)

\* json.dumps: the text of a value
json_dumps(value) == <<"json", value>>

\* the value is Python's None
is_none(value) == DOMAIN value = DOMAIN None

\* get_tools: the names of the tools, in the order of the list
ToolNames ==
    <<"tokenize_payment_card", "process_payment", "get_transaction",
      "get_customer_transactions", "refund_transaction", "get_token_info">>

\* the keys the tool reads with args[...], in the order it reads them
required_arguments(tool_name) ==
    IF tool_name = "tokenize_payment_card"
    THEN <<"card_number", "card_holder", "expiry_month", "expiry_year", "cvv",
           "customer_email", "billing_street", "billing_city",
           "billing_state", "billing_zip">>
    ELSE IF tool_name = "process_payment"
    THEN <<"token", "amount", "customer_id">>
    ELSE IF tool_name = "get_customer_transactions"
    THEN <<"customer_id">>
    ELSE IF tool_name = "get_token_info"
    THEN <<"token">>
    ELSE <<"transaction_id">>

\* the first of the keys that args lacks (the KeyError), 0 if it has all
first_missing(keys, args) ==
    LET missing == {i \in 1..Len(keys) : keys[i] \notin DOMAIN args}
    IN  IF missing = {} THEN 0
        ELSE CHOOSE i \in missing : \A j \in missing : i <= j

\* args.get(key, default)
arguments_get(args, key, default) ==
    IF key \in DOMAIN args THEN args[key] ELSE default

\* lines 225-231: the card of the tokenize request
tool_card(args) ==
    [card_number |-> args.card_number,
     card_holder |-> args.card_holder,
     expiry_month |-> args.expiry_month,
     expiry_year |-> args.expiry_year,
     cvv |-> args.cvv]

\* the request a tool sends to the REST API and what the handler does
\* with it: the answer of the handler (its HTTP status and JSON body)
\* and the two stores afterwards, a store the handler does not return
\* being as it was
tool_request(toks, txs, tool_name, args, outcome, t) ==
    IF tool_name = "tokenize_payment_card"
    THEN api_tokenize_payment(toks, tool_card(args), arguments_get(args, "customer_id", NoCustomerId), t, t) @@ [transactions |-> txs]
    ELSE IF tool_name = "process_payment"
    THEN api_process_payment(toks, txs, args.token, args.amount, arguments_get(args, "currency", "USD"), args.customer_id, arguments_get(args, "description", NoDescription), outcome, t)
    ELSE IF tool_name = "get_transaction"
    THEN api_get_transaction(txs, args.transaction_id) @@ [tokens |-> toks, transactions |-> txs]
    ELSE IF tool_name = "get_customer_transactions"
    THEN api_get_customer_transactions(txs, args.customer_id) @@ [tokens |-> toks, transactions |-> txs]
    ELSE IF tool_name = "refund_transaction"
    THEN api_refund_transaction(txs, args.transaction_id, t) @@ [tokens |-> toks]
    ELSE api_get_token_info(toks, args.token) @@ [tokens |-> toks, transactions |-> txs]

\* response.raise_for_status() and json.dumps(response.json()): the text
\* for the answer r of the REST handler
tool_text(r) ==
    [tokens |-> r.tokens, transactions |-> r.transactions,
     text |-> IF r.status >= 400
              THEN json_dumps([error |-> <<"HTTPStatusError", r.status>>])
              ELSE json_dumps(r.body)]

\* the KeyError of args[...], the keys read being keys
key_error(keys, args) == <<"KeyError", keys[first_missing(keys, args)]>>

\* PaymentMCPServer.execute_tool: the text returned.  Every exception of
\* a tool (a KeyError of args[...], a failed connection when the API is
\* not up, raise_for_status on a status of 400 or more) is caught and
\* returned as the text of an error object.
execute_tool(toks, txs, tool_name, arguments, up, outcome, t) ==
    IF \A i \in 1..Len(ToolNames) : ToolNames[i] # tool_name
    THEN [tokens |-> toks, transactions |-> txs,
          text |-> json_dumps([error |-> <<"Unknown tool: ", tool_name>>])]
    ELSE IF first_missing(required_arguments(tool_name), arguments) # 0
    THEN [tokens |-> toks, transactions |-> txs,
          text |-> json_dumps([error |-> key_error(required_arguments(tool_name), arguments)])]
    ELSE IF ~up
    THEN [tokens |-> toks, transactions |-> txs,
          text |-> json_dumps([error |-> <<"ConnectError">>])]
    ELSE tool_text(tool_request(toks, txs, tool_name, arguments, outcome, t))

\* send_response: the lines written to stdout
send_response(response) == <<response>>

send_error(request_id, code, message) ==
    send_response([jsonrpc |-> "2.0", id |-> request_id,
                   error |-> [code |-> code, message |-> message]])

handle_initialize(request_id) ==
    send_response(
        [jsonrpc |-> "2.0", id |-> request_id,
         result |-> [protocolVersion |-> "0.1.0",
                     serverInfo |-> [name |-> "payment-mcp-server",
                                     version |-> "1.0.0"],
                     capabilities |-> [tools |-> EmptyDict]]])

\* description and inputSchema stand for the texts of get_tools
handle_list_tools(request_id) ==
    send_response(
        [jsonrpc |-> "2.0", id |-> request_id,
         result |-> [tools |-> [i \in 1..Len(ToolNames) |->
                                   [name |-> ToolNames[i],
                                    description |-> <<"description", ToolNames[i]>>,
                                    inputSchema |-> <<"parameters", ToolNames[i]>>]]]])

\* line 76: not tool_name, for a name that is absent or the empty string
no_tool_name(params) == "name" \notin DOMAIN params \/ params.name = ""

\* lines 82-90: the response that carries the text e.text of the tool
tool_result(request_id, e) ==
    [tokens |-> e.tokens, transactions |-> e.transactions,
     written |-> send_response(
                     [jsonrpc |-> "2.0", id |-> request_id,
                      result |-> [content |-> <<[type |-> "text", text |-> e.text]>>]]),
     raised |-> FALSE]

\* handle_call_tool: the stores afterwards, the lines written, and
\* whether an exception leaves the function.  params.get of lines 73-74
\* raises AttributeError when params is None.  execute_tool catches
\* every Exception of a tool and returns a text, so the except branch
\* of lines 91-92 (error -32603) is never entered.
handle_call_tool(toks, txs, request_id, params, up, outcome, t) ==
    IF is_none(params)
    THEN [tokens |-> toks, transactions |-> txs, written |-> << >>,
          raised |-> TRUE]
    ELSE IF no_tool_name(params)
    THEN [tokens |-> toks, transactions |-> txs,
          written |-> send_error(request_id, -32602, "Missing tool name"),
          raised |-> FALSE]
    ELSE tool_result(request_id, execute_tool(toks, txs, params.name, arguments_get(params, "arguments", EmptyDict), up, outcome, t))

\* request.get("method") is the given method
method_is(request, method) ==
    "method" \in DOMAIN request /\ request.method = method

\* handle_request, for a request that is a JSON object
handle_request(toks, txs, request, up, outcome, t) ==
    IF method_is(request, "initialize")
    THEN [tokens |-> toks, transactions |-> txs,
          written |-> handle_initialize(arguments_get(request, "id", None)),
          raised |-> FALSE]
    ELSE IF method_is(request, "tools/list")
    THEN [tokens |-> toks, transactions |-> txs,
          written |-> handle_list_tools(arguments_get(request, "id", None)),
          raised |-> FALSE]
    ELSE IF method_is(request, "tools/call")
    THEN handle_call_tool(toks, txs, arguments_get(request, "id", None), arguments_get(request, "params", EmptyDict), up, outcome, t)
    ELSE [tokens |-> toks, transactions |-> txs,
          written |-> send_error(arguments_get(request, "id", None), -32601, <<"Method not found: ", arguments_get(request, "method", None)>>),
          raised |-> FALSE]

(* A line of stdin is a record: text is what the line reads, and value *)
(* is the JSON object it is the text of, for a line that is one.       *)

BlankText == "   "
GarbageText == "{oops"
ArrayText == "[1]"
ObjectText == "{...}"

\* line.strip()
strip(line) == IF line.text = BlankText THEN "" ELSE line.text

\* json.loads: a JSONDecodeError, a value that is not a dict, or a dict
json_loads(line) ==
    IF line.text = GarbageText
    THEN [error |-> TRUE, is_dict |-> FALSE, value |-> None]
    ELSE IF line.text = ArrayText
    THEN [error |-> FALSE, is_dict |-> FALSE, value |-> None]
    ELSE [error |-> FALSE, is_dict |-> TRUE, value |-> line.value]

\* what a turn of the loop leaves when it writes nothing
nothing_written(toks, txs, raised) ==
    [tokens |-> toks, transactions |-> txs, written |-> << >>,
     raised |-> raised]

\* lines 119-132: one turn of the loop of main, for the line read.  An
\* empty line is skipped; a JSONDecodeError and any other exception
\* (request.get on a value that is not a dict, an exception that leaves
\* handle_request) are reported on stderr, and nothing is written to
\* stdout.
main_line(toks, txs, line, up, outcome, t) ==
    IF strip(line) = "" THEN nothing_written(toks, txs, FALSE)
    ELSE IF json_loads(line).error THEN nothing_written(toks, txs, TRUE)
    ELSE IF ~json_loads(line).is_dict THEN nothing_written(toks, txs, TRUE)
    ELSE handle_request(toks, txs, json_loads(line).value, up, outcome, t)

----------------------------------------------------------------------------
(* Threads that call refund_transaction on one PaymentProcessor *)

Threads == {1, 2}

\* a thread that is not in refund_transaction
Idle == [pc |-> "idle"]

NoCalls == [p \in Threads |-> Idle]

----------------------------------------------------------------------------
(* The state machine.  Init is the state after the module-level           *)
(* construction of main.py (lines 31-32): both stores empty.              *)

Init ==
    /\ tokens = EmptyDict
    /\ transactions = EmptyDict
    /\ now = 0
    /\ last = [op |-> "none"]
    /\ calls = NoCalls
    /\ stdin = << >>
    /\ stdout = << >>

\* Time passes between two calls.
Tick(d) ==
    /\ now' = now + d
    /\ last' = [op |-> "tick"]
    /\ UNCHANGED <<tokens, transactions, calls, stdin, stdout>>

(* Calls made on the two services directly. *)

\* PaymentTokenizer.tokenize_card; the clock moves on by d between the
\* reading of line 37 and the reading of line 49.
TokenizeCard(card_number, card_holder, expiry_month, expiry_year, d) ==
    LET r == tokenize_card(tokens, card_number, card_holder, expiry_month, expiry_year, now, now + d)
    IN  /\ tokens' = r.tokens
        /\ now' = now + d
        /\ last' = [op |-> "tokenize_card",
                    args |-> [card_number |-> card_number],
                    result |-> r.result]
        /\ UNCHANGED <<transactions, calls, stdin, stdout>>

\* PaymentTokenizer.validate_token
ValidateToken(token) ==
    LET r == validate_token(tokens, token, now)
    IN  /\ tokens' = r.tokens
        /\ last' = [op |-> "validate_token",
                    args |-> [token |-> token],
                    result |-> r.result]
        /\ UNCHANGED <<transactions, now, calls, stdin, stdout>>

\* PaymentTokenizer.get_token_info
GetTokenInfo(token) ==
    /\ last' = [op |-> "get_token_info",
                args |-> [token |-> token],
                result |-> get_token_info(tokens, token)]
    /\ UNCHANGED <<tokens, transactions, now, calls, stdin, stdout>>

\* PaymentProcessor.process_payment
ProcessPayment(token, amount, currency, customer_id, description, token_data, outcome) ==
    LET r == process_payment(transactions, token, amount, currency, customer_id, description, token_data, outcome, now)
    IN  /\ transactions' = r.transactions
        /\ last' = [op |-> "process_payment",
                    args |-> [token |-> token, amount |-> amount,
                              currency |-> currency,
                              customer_id |-> customer_id,
                              description |-> description,
                              token_data |-> token_data,
                              outcome |-> outcome],
                    result |-> r.result,
                    drawn |-> r.drawn]
        /\ UNCHANGED <<tokens, now, calls, stdin, stdout>>

\* _identify_card_type, called on its own
IdentifyCardType(card_number) ==
    /\ last' = [op |-> "_identify_card_type",
                args |-> [card_number |-> card_number],
                result |-> _identify_card_type(card_number)]
    /\ UNCHANGED <<tokens, transactions, now, calls, stdin, stdout>>

(* Requests to the REST application. *)

ApiTokenize(card, customer_id, d) ==
    LET r == api_tokenize_payment(tokens, card, customer_id, now, now + d)
    IN  /\ tokens' = r.tokens
        /\ now' = IF r.status = 201 THEN now + d ELSE now
        /\ last' = [op |-> "POST /tokenize",
                    args |-> [card |-> card],
                    status |-> r.status, core |-> r.core, body |-> r.body]
        /\ UNCHANGED <<transactions, calls, stdin, stdout>>

ApiProcessPayment(token, amount, currency, customer_id, description, outcome) ==
    LET r == api_process_payment(tokens, transactions, token, amount, currency, customer_id, description, outcome, now)
    IN  /\ tokens' = r.tokens
        /\ transactions' = r.transactions
        /\ last' = [op |-> "POST /payments",
                    args |-> [token |-> token, amount |-> amount,
                              currency |-> currency,
                              customer_id |-> customer_id,
                              description |-> description],
                    status |-> r.status, core |-> r.core, body |-> r.body]
        /\ UNCHANGED <<now, calls, stdin, stdout>>

ApiGetTransaction(transaction_id) ==
    LET r == api_get_transaction(transactions, transaction_id)
    IN  /\ last' = [op |-> "GET /transactions",
                    args |-> [transaction_id |-> transaction_id],
                    status |-> r.status, core |-> r.core, body |-> r.body]
        /\ UNCHANGED <<tokens, transactions, now, calls, stdin, stdout>>

ApiGetCustomerTransactions(customer_id) ==
    LET r == api_get_customer_transactions(transactions, customer_id)
    IN  /\ last' = [op |-> "GET /customers/transactions",
                    args |-> [customer_id |-> customer_id],
                    status |-> r.status, core |-> r.core, body |-> r.body]
        /\ UNCHANGED <<tokens, transactions, now, calls, stdin, stdout>>

ApiRefund(transaction_id) ==
    LET r == api_refund_transaction(transactions, transaction_id, now)
    IN  /\ transactions' = r.transactions
        /\ last' = [op |-> "POST /refund",
                    args |-> [transaction_id |-> transaction_id],
                    status |-> r.status, core |-> r.core, body |-> r.body]
        /\ UNCHANGED <<tokens, now, calls, stdin, stdout>>

ApiGetTokenInfo(token) ==
    LET r == api_get_token_info(tokens, token)
    IN  /\ last' = [op |-> "GET /tokens",
                    args |-> [token |-> token],
                    status |-> r.status, core |-> r.core, body |-> r.body]
        /\ UNCHANGED <<tokens, transactions, now, calls, stdin, stdout>>

(* refund_transaction in thread p, one statement at a time.  pc names the *)
(* statement the thread executes next.                                    *)

\* what a step of thread p at the given line leaves in last
ThreadStep(p, line) == [op |-> "refund_transaction", thread |-> p, line |-> line]

\* line 107: transaction = self.transactions.get(transaction_id)
RefundCall(p, transaction_id) ==
    /\ calls[p].pc = "idle"
    /\ calls' = [calls EXCEPT ![p] = [pc |-> "check",
                                      transaction_id |-> transaction_id,
                                      found |-> dict_has(transactions, transaction_id)]]
    /\ last' = ThreadStep(p, 107)
    /\ UNCHANGED <<tokens, transactions, now, stdin, stdout>>

\* lines 109-116: the two early returns
RefundCheck(p) ==
    /\ calls[p].pc = "check"
    /\ calls' = [calls EXCEPT ![p] =
                    IF ~calls[p].found
                    THEN [pc |-> "done", transaction_id |-> calls[p].transaction_id,
                          result |-> None]
                    ELSE IF ~is_refundable(dict_item(transactions, calls[p].transaction_id))
                    THEN [pc |-> "done", transaction_id |-> calls[p].transaction_id,
                          result |-> NotRefundable]
                    ELSE [pc |-> "create", transaction_id |-> calls[p].transaction_id]]
    /\ last' = ThreadStep(p, 109)
    /\ UNCHANGED <<tokens, transactions, now, stdin, stdout>>

\* lines 119-129: refund_id = ...; refund = {...}
RefundCreate(p) ==
    /\ calls[p].pc = "create"
    /\ calls' = [calls EXCEPT ![p] =
                    [pc |-> "store", transaction_id |-> calls[p].transaction_id,
                     refund |-> refund_record(transactions, calls[p].transaction_id,
                                              fresh_transaction_id(transactions, calls), now)]]
    /\ last' = ThreadStep(p, 119)
    /\ UNCHANGED <<tokens, transactions, now, stdin, stdout>>

\* line 132: self.transactions[refund_id] = refund
RefundStore(p) ==
    /\ calls[p].pc = "store"
    /\ transactions' = dict_set(transactions, calls[p].refund.refund_id, calls[p].refund)
    /\ calls' = [calls EXCEPT ![p].pc = "flag"]
    /\ last' = ThreadStep(p, 132)
    /\ UNCHANGED <<tokens, now, stdin, stdout>>

\* line 135: transaction["refunded"] = True
RefundFlag(p) ==
    /\ calls[p].pc = "flag"
    /\ transactions' = refund_flag(transactions, calls[p].transaction_id)
    /\ calls' = [calls EXCEPT ![p].pc = "link"]
    /\ last' = ThreadStep(p, 135)
    /\ UNCHANGED <<tokens, now, stdin, stdout>>

\* lines 136-138: transaction["refund_id"] = refund_id; return refund
RefundLink(p) ==
    /\ calls[p].pc = "link"
    /\ transactions' = refund_link(transactions, calls[p].transaction_id, calls[p].refund.refund_id)
    /\ calls' = [calls EXCEPT ![p] =
                    [pc |-> "done", transaction_id |-> calls[p].transaction_id,
                     result |-> calls[p].refund]]
    /\ last' = ThreadStep(p, 136)
    /\ UNCHANGED <<tokens, now, stdin, stdout>>

(* mcp_server_stdio.main: one turn of the loop, which reads the next    *)
(* line of stdin.  up tells whether the REST API answers, outcome is    *)
(* the value random.random() returns there.                             *)

MainLoop(up, outcome) ==
    /\ stdin # << >>
    /\ \E r \in {main_line(tokens, transactions, Head(stdin), up, outcome, now)} :
           /\ tokens' = r.tokens
           /\ transactions' = r.transactions
           /\ stdout' = stdout \o r.written
           /\ last' = [op |-> "main", line |-> Head(stdin), written |-> r.written]
    /\ stdin' = Tail(stdin)
    /\ UNCHANGED <<now, calls>>

----------------------------------------------------------------------------
(* Bounds and inputs *)

\* the number of tokens the store may hold in Spec and in SpecTok
MaxTokens == 1

\* the number of tokens the store may hold in SpecLife
MaxLifeTokens == 2

\* the number of records the processor's store may hold in SpecLife
MaxLifeRecords == 2

\* the number of records (payments and refunds) the processor's store may
\* hold in SpecProc
MaxTransactions == 3

\* the number of records the two stores may hold together in Spec
MaxRecords == 3

\* the number of records the processor's store may hold in SpecSpecial
MaxSpecialRecords == 2

\* the number of lines on stdin in SpecStdio
MaxStdinLines == 2

\* the number of payments made in SpecRace
MaxRacePayments == 1

\* the number of payments made in SpecSim
MaxSimPayments == 1

\* the longest card number given to _identify_card_type in SpecCard
MaxCardLen == 5

\* the clock stops here
MaxTime == 48

\* How far the clock moves between two calls: to the exact expiry of a
\* token created now (24 hours on), or half way.
ClockSteps == {12, 24}

\* How far the clock moves between two readings within tokenize_card.
ClockDrift == {0, 1}

Customers == {"cust_1", "cust_2"}

Currencies == {"USD", "EUR"}

\* 16 digits starting with 4, as sent by the tests
VisaNumber == <<"4", "5", "3", "2", "0", "1", "5", "1", "1", "2", "8", "3", "0", "3", "6", "6">>

\* 16 digits starting with 54, dashes between the groups
MastercardNumber == <<"5", "4", "2", "5", "-", "2", "3", "3", "4", "-", "3", "0", "1", "0", "-", "9", "9", "0", "3">>

\* 14 digits: too short
ShortNumber == <<"4", "5", "3", "2", "0", "1", "5", "1", "1", "2", "8", "3", "0", "3">>

\* a letter among 16 characters
LetterNumber == <<"4", "5", "3", "2", "0", "1", "5", "1", "1", "2", "8", "3", "0", "3", "6", "x">>

GoodCvv == <<"1", "2", "3">>

Card(number, month, cvv) ==
    [card_number |-> number, card_holder |-> "John Doe",
     expiry_month |-> month, expiry_year |-> 2025, cvv |-> cvv]

GoodCards == {Card(VisaNumber, 12, GoodCvv), Card(MastercardNumber, 1, GoodCvv)}

BadCards ==
    {Card(ShortNumber, 12, GoodCvv), Card(LetterNumber, 12, GoodCvv),
     Card(VisaNumber, 13, GoodCvv), Card(VisaNumber, 12, <<"1", "2">>)}

\* a token that was never issued
UnknownToken == <<"tok", 0>>

\* a transaction id that was never issued
UnknownTransaction == <<"txn", 0>>

TokenArgs == dict_keys(tokens) \cup {UnknownToken}

TransactionArgs == dict_keys(transactions) \cup {UnknownTransaction}

\* token metadata as validate_token returns it for VisaNumber
SomeTokenData ==
    dict_item(tokenize_card(EmptyDict, VisaNumber, "John Doe", 12, 2025, 0, 0).tokens, <<"tok", 1>>)

----------------------------------------------------------------------------
(* Spec: the REST application of main.py.  Amounts: not positive, 0.01,   *)
(* 99.99; random values: one that succeeds and one that leaves pending,   *)
(* the second for the amount 99.99 only (no other amount here reads it).  *)

Next ==
    \/ \E d \in {24} : now + d <= MaxTime /\ Tick(d)
    \/ \E card \in GoodCards :
           /\ Len(tokens) < MaxTokens
           /\ Len(tokens) + Len(transactions) < MaxRecords
           /\ ApiTokenize(card, "cust_1", 0)
    \/ \E card \in BadCards :
           /\ Len(tokens) + Len(transactions) < MaxRecords
           /\ ApiTokenize(card, "cust_1", 0)
    \/ \E token \in TokenArgs, amount \in {0, 10, 99990}, customer_id \in Customers, outcome \in {0, 95} :
           /\ Len(tokens) + Len(transactions) < MaxRecords
           /\ amount # 99990 => outcome = 0
           /\ ApiProcessPayment(token, amount, "USD", customer_id, NoDescription, outcome)
    \/ \E transaction_id \in TransactionArgs : ApiGetTransaction(transaction_id)
    \/ \E transaction_id \in TransactionArgs :
           Len(tokens) + Len(transactions) < MaxRecords /\ ApiRefund(transaction_id)

Spec == Init /\ [][Next]_vars

----------------------------------------------------------------------------
(* SpecProc: the PaymentProcessor on its own.  Payments are made on the   *)
(* service directly, reads and refunds through their handlers (which add  *)
(* the HTTP status to what the service returns).  Amounts: 0.01, 99.99,   *)
(* 10000; random values: one in each range.  A refund that stores        *)
(* nothing (unknown id, or a transaction that is not successful) is made  *)
(* at a full store too.                                                   *)

NextProc ==
    \/ \E amount \in {10, 99990, 10000000}, customer_id \in Customers, outcome \in {0, 90, 95} :
           /\ Len(transactions) < MaxTransactions
           /\ ProcessPayment(<<"tok", 1>>, amount, "USD", customer_id, NoDescription, SomeTokenData, outcome)
    \/ \E transaction_id \in TransactionArgs : ApiGetTransaction(transaction_id)
    \/ \E customer_id \in Customers \cup {"cust_none"} : ApiGetCustomerTransactions(customer_id)
    \/ \E transaction_id \in TransactionArgs :
           /\ \/ Len(transactions) < MaxTransactions
              \/ api_refund_transaction(transactions, transaction_id, now).status # 200
           /\ ApiRefund(transaction_id)

SpecProc == Init /\ [][NextProc]_vars

----------------------------------------------------------------------------
(* SpecTok: the PaymentTokenizer on its own, with the clock. *)

NextTok ==
    \/ \E d \in ClockSteps : now + d <= MaxTime /\ Tick(d)
    \/ \E card \in GoodCards, d \in ClockDrift :
           /\ Len(tokens) < MaxTokens
           /\ TokenizeCard(clean_number(card.card_number), card.card_holder, card.expiry_month, card.expiry_year, d)
    \/ \E token \in TokenArgs : ValidateToken(token)
    \/ \E token \in TokenArgs : GetTokenInfo(token)
    \/ \E token \in TokenArgs : ApiGetTokenInfo(token)

SpecTok == Init /\ [][NextTok]_vars

----------------------------------------------------------------------------
(* SpecLife: the life of several tokens.  The PaymentTokenizer with a      *)
(* clock that moves by the lifetime of a token and does not move within   *)
(* tokenize_card, and beside it a PaymentProcessor that takes one payment *)
(* of 99.99 and refunds.                                                  *)

NextLife ==
    \/ now + TOKEN_LIFETIME_HOURS <= MaxTime /\ Tick(TOKEN_LIFETIME_HOURS)
    \/ \E card \in GoodCards :
           /\ Len(tokens) < MaxLifeTokens
           /\ TokenizeCard(clean_number(card.card_number), card.card_holder, card.expiry_month, card.expiry_year, 0)
    \/ \E token \in TokenArgs : ValidateToken(token)
    \/ \E token \in TokenArgs : GetTokenInfo(token)
    \/ /\ Len(transactions) = 0
       /\ ProcessPayment(<<"tok", 1>>, 99990, "USD", "cust_1", NoDescription, SomeTokenData, 0)
    \/ \E transaction_id \in TransactionArgs :
           Len(transactions) < MaxLifeRecords /\ ApiRefund(transaction_id)

SpecLife == Init /\ [][NextLife]_vars

----------------------------------------------------------------------------
(* SpecRace: payments of 0.01 (failed) and 99.99 (success), then every    *)
(* thread calls refund_transaction once, the statements of the calls      *)
(* interleaved in every way.                                              *)

NextRace ==
    \/ \E amount \in {10, 99990} :
           /\ calls = NoCalls
           /\ Len(transactions) < MaxRacePayments
           /\ ProcessPayment(<<"tok", 1>>, amount, "USD", "cust_1", NoDescription, SomeTokenData, 0)
    \/ \E p \in Threads, transaction_id \in TransactionArgs : RefundCall(p, transaction_id)
    \/ \E p \in Threads : RefundCheck(p)
    \/ \E p \in Threads : RefundCreate(p)
    \/ \E p \in Threads : RefundStore(p)
    \/ \E p \in Threads : RefundFlag(p)
    \/ \E p \in Threads : RefundLink(p)

SpecRace == Init /\ [][NextRace]_vars

----------------------------------------------------------------------------
(* SpecSpecial: payments of every special amount and of ordinary amounts, *)
(* and refunds of what is stored.  Amounts: 0.01, 0.02, 0.03, 99.99,      *)
(* 9999.999, 10000, 15000; random values: one in each range.              *)

SpecialAmounts == {10, 20, 30, 99990, 9999999, 10000000, 15000000}

NextSpecial ==
    \/ \E amount \in SpecialAmounts, outcome \in {0, 90, 95} :
           /\ Len(transactions) < MaxSpecialRecords
           /\ ProcessPayment(<<"tok", 1>>, amount, "USD", "cust_1", NoDescription, SomeTokenData, outcome)
    \/ \E transaction_id \in TransactionArgs :
           /\ \/ Len(transactions) < MaxSpecialRecords
              \/ api_refund_transaction(transactions, transaction_id, now).status # 200
           /\ ApiRefund(transaction_id)

SpecSpecial == Init /\ [][NextSpecial]_vars

----------------------------------------------------------------------------
(* SpecStdio: the stdio server reads the lines of its stdin, which hold *)
(* requests of every kind, while a payment is made on the REST API.     *)

\* a line that is the text of the JSON object
ObjectLine(value) == [text |-> ObjectText, value |-> value]

Request(id, method) == [jsonrpc |-> "2.0", id |-> id, method |-> method]

CallTool(id, params) == [params |-> params] @@ Request(id, "tools/call")

StdinLines ==
    {[text |-> BlankText], [text |-> GarbageText], [text |-> ArrayText],
     ObjectLine(Request(1, "initialize")),
     ObjectLine(Request(2, "tools/list")),
     ObjectLine(Request(3, "ping")),
     ObjectLine([jsonrpc |-> "2.0", id |-> 4]),
     ObjectLine(Request(5, "tools/call")),
     ObjectLine(CallTool(6, None)),
     ObjectLine(CallTool(7, [arguments |-> [transaction_id |-> <<"txn", 1>>]])),
     ObjectLine(CallTool(8, [name |-> ""])),
     ObjectLine(CallTool(9, [name |-> "no_such_tool"])),
     ObjectLine(CallTool(10, [name |-> "get_transaction"])),
     ObjectLine(CallTool(11, [name |-> "get_transaction", arguments |-> [transaction_id |-> <<"txn", 1>>]])),
     ObjectLine(CallTool(12, [name |-> "refund_transaction", arguments |-> [transaction_id |-> <<"txn", 1>>]]))}

InitStdio ==
    /\ tokens = EmptyDict
    /\ transactions = EmptyDict
    /\ now = 0
    /\ last = [op |-> "none"]
    /\ calls = NoCalls
    /\ stdin \in UNION {[1..n -> StdinLines] : n \in 0..MaxStdinLines}
    /\ stdout = << >>

NextStdio ==
    \/ /\ Len(transactions) = 0
       /\ ProcessPayment(<<"tok", 1>>, 99990, "USD", "cust_1", NoDescription, SomeTokenData, 0)
    \/ \E up \in BOOLEAN : MainLoop(up, 0)

SpecStdio == InitStdio /\ [][NextStdio]_vars

----------------------------------------------------------------------------
(* SpecSim: process_payment over every kind of amount and every random    *)
(* value next to a threshold.                                             *)

\* 0.009, 0.01, 0.02, 0.03, 99.99, 9999.999, 10000, 15000
SimAmounts == {9, 10, 20, 30, 99990, 9999999, 10000000, 15000000}

\* one value of random.random() in each of the three ranges, and every
\* value next to a threshold
SimOutcomes == {0, 89, 90, 94, 95, 99}

NextSim ==
    \E token \in {<<"tok", 1>>, UnknownToken}, amount \in SimAmounts, currency \in Currencies, customer_id \in Customers, token_data \in {None, SomeTokenData}, outcome \in SimOutcomes :
        /\ Len(transactions) < MaxSimPayments
        /\ ProcessPayment(token, amount, currency, customer_id, NoDescription, token_data, outcome)

SpecSim == Init /\ [][NextSim]_vars

----------------------------------------------------------------------------
(* SpecCard: _identify_card_type over every short string of these         *)
(* characters.                                                            *)

CardChars == {"0", "1", "3", "4", "5", "6", "7", " ", "-"}

CardStrings == UNION {[1..n -> CardChars] : n \in 0..MaxCardLen}

\* a caller holds a card number
InitCard ==
    /\ tokens = EmptyDict
    /\ transactions = EmptyDict
    /\ now = 0
    /\ last \in {[op |-> "card number", args |-> [card_number |-> c]] : c \in CardStrings}
    /\ calls = NoCalls
    /\ stdin = << >>
    /\ stdout = << >>

NextCard ==
    /\ last.op = "card number"
    /\ IdentifyCardType(last.args.card_number)

SpecCard == InitCard /\ [][NextCard]_vars

----------------------------------------------------------------------------
(* Properties of _simulate_processing, under SpecSim *)

\* the last call was process_payment on the service
PaidDirectly == last.op = "process_payment"

\* the amounts 0.01, 0.02, 0.03 of the specification, in thousandths
FixedAmounts == {10, 20, 30}

\* C1: process_payment with amount exactly 0.01 returns failed,
\* "Insufficient funds"; exactly 0.02 returns failed, "Card declined";
\* exactly 0.03 returns pending, "Payment pending verification"; whatever
\* the token, currency, customer, token metadata and random value.
C1_FixedAmounts ==
    PaidDirectly =>
        /\ last.args.amount = 10 =>
               /\ last.result.status = "failed"
               /\ last.result.message = "Insufficient funds"
        /\ last.args.amount = 20 =>
               /\ last.result.status = "failed"
               /\ last.result.message = "Card declined"
        /\ last.args.amount = 30 =>
               /\ last.result.status = "pending"
               /\ last.result.message = "Payment pending verification"

\* 0.01 paid with a random value that would have meant success, without
\* token metadata, in EUR.
C1_Witness ==
    /\ PaidDirectly
    /\ last.args.amount = 10
    /\ last.args.outcome = 0
    /\ last.args.token_data = None
    /\ last.args.currency = "EUR"
    /\ last.result.status = "failed"
    /\ last.result.message = "Insufficient funds"

\* C2: an amount of 10000 or more returns pending, "Large transaction -
\* manual review required", without a random draw; an amount below 10000
\* other than 0.01, 0.02, 0.03 is decided by the draw.
C2_LargeAmount ==
    PaidDirectly =>
        /\ last.args.amount >= 10000000 =>
               /\ last.result.status = "pending"
               /\ last.result.message = "Large transaction - manual review required"
               /\ ~last.drawn
        /\ (last.args.amount < 10000000 /\ last.args.amount \notin FixedAmounts) =>
               /\ last.drawn
               /\ last.result.message # "Large transaction - manual review required"
               /\ last.result.status = "success" <=> last.args.outcome < 90

\* exactly 10000 paid with a random value that would have meant success
C2_Witness ==
    /\ PaidDirectly
    /\ last.args.amount = 10000000
    /\ last.args.outcome = 0
    /\ last.result.status = "pending"
    /\ ~last.drawn

\* C3: for an amount below 10000 other than 0.01, 0.02, 0.03 one random
\* value r is drawn: r < 0.90 returns success, 0.90 <= r < 0.95 returns
\* failed, 0.95 <= r returns pending, each with its message.
C3_RandomOutcome ==
    (PaidDirectly /\ last.args.amount < 10000000 /\ last.args.amount \notin FixedAmounts) =>
        /\ last.drawn
        /\ last.args.outcome < 90 =>
               /\ last.result.status = "success"
               /\ last.result.message = "Payment processed successfully"
        /\ (last.args.outcome >= 90 /\ last.args.outcome < 95) =>
               /\ last.result.status = "failed"
               /\ last.result.message = "Card declined by issuer"
        /\ (last.args.outcome >= 95 /\ last.args.outcome < 100) =>
               /\ last.result.status = "pending"
               /\ last.result.message = "Payment under review"

\* 99.99 paid with the random value 0.90: the threshold is in the upper
\* range
C3_Witness ==
    /\ PaidDirectly
    /\ last.args.amount = 99990
    /\ last.args.outcome = 90
    /\ last.drawn
    /\ last.result.status = "failed"
    /\ last.result.message = "Card declined by issuer"

----------------------------------------------------------------------------
(* Properties of refunds and of the customer listing, under SpecProc *)

\* the step is a refund request for an id that is stored with this status
RefundOf(status) ==
    /\ last'.op = "POST /refund"
    /\ dict_has(transactions, last'.args.transaction_id)
    /\ dict_item(transactions, last'.args.transaction_id).status = status

\* C4: refund_transaction(id) on a stored transaction with status success
\* returns a refund record with original_transaction_id = id, stores it
\* under its new refund_id, and leaves the original with refunded = true
\* and refund_id = that refund's id.
C4_RefundOfSuccess ==
    [][RefundOf("success") =>
        LET id == last'.args.transaction_id
            refund == last'.core
            original == dict_get(transactions', id)
        IN  /\ "refund_id" \in DOMAIN refund
            /\ refund.original_transaction_id = id
            /\ ~dict_has(transactions, refund.refund_id)
            /\ dict_get(transactions', refund.refund_id) = refund
            /\ original # None
            /\ "refunded" \in DOMAIN original
            /\ original.refunded = TRUE
            /\ "refund_id" \in DOMAIN original
            /\ original.refund_id = refund.refund_id]_vars

\* a successful payment has just been refunded
C4_Witness ==
    /\ last.op = "POST /refund"
    /\ last.status = 200
    /\ last.core.original_transaction_id = last.args.transaction_id
    /\ "transaction_id" \in DOMAIN dict_item(transactions, last.args.transaction_id)
    /\ dict_item(transactions, last.args.transaction_id).refunded
    /\ dict_item(transactions, last.args.transaction_id).refund_id = last.core.refund_id
    /\ dict_get(transactions, last.core.refund_id) = last.core

\* C5: refund_transaction(id) on a stored transaction with status failed
\* or pending returns {success: false, message: "Only successful
\* transactions can be refunded"}, leaves the store as it was, and the
\* handler answers 400.
C5_RefundOfUnsuccessful ==
    [][(RefundOf("failed") \/ RefundOf("pending")) =>
        /\ last'.core = [success |-> FALSE,
                         message |-> "Only successful transactions can be refunded"]
        /\ transactions' = transactions
        /\ last'.status = 400]_vars

\* the refund of a pending payment was refused, and the payment carries
\* no refund fields
C5_Witness ==
    /\ last.op = "POST /refund"
    /\ last.status = 400
    /\ last.core.success = FALSE
    /\ dict_item(transactions, last.args.transaction_id).status = "pending"
    /\ "refunded" \notin DOMAIN dict_item(transactions, last.args.transaction_id)
    /\ "refund_id" \notin DOMAIN dict_item(transactions, last.args.transaction_id)

\* C6: refund_transaction(id) with an id that is no key of the store
\* returns None, which differs from the refusal of C5, leaves the store
\* as it was, and the handler answers 404.
C6_RefundOfUnknown ==
    [][(last'.op = "POST /refund" /\ ~dict_has(transactions, last'.args.transaction_id)) =>
        /\ last'.core = None
        /\ last'.core # [success |-> FALSE,
                         message |-> "Only successful transactions can be refunded"]
        /\ transactions' = transactions
        /\ last'.status = 404]_vars

\* an unknown id was refunded while the store holds records
C6_Witness ==
    /\ last.op = "POST /refund"
    /\ ~dict_has(transactions, last.args.transaction_id)
    /\ last.core = None
    /\ last.status = 404
    /\ Len(transactions) >= 2

\* the positions of the store whose record belongs to the customer
PositionsOf(store, customer_id) ==
    {i \in 1..Len(store) : store[i].value.customer_id = customer_id}

\* C7: get_customer_transactions(c) returns exactly the stored records
\* with customer_id = c, in the order of their insertion, the empty list
\* when there is none, and leaves the store as it was.
C7_CustomerTransactions ==
    [][last'.op = "GET /customers/transactions" =>
        LET found == last'.core
            at == PositionsOf(transactions, last'.args.customer_id)
        IN  /\ transactions' = transactions
            /\ Len(found) = Cardinality(at)
            /\ at = {} => found = << >>
            /\ \A j \in 1..Len(found) :
                   \E i \in at :
                       /\ Cardinality({k \in at : k < i}) = j - 1
                       /\ found[j] = transactions[i].value]_vars

\* two different records of one customer were listed, in insertion
\* order, with a record of another customer stored between them
C7_Witness ==
    /\ last.op = "GET /customers/transactions"
    /\ Len(transactions) = 3
    /\ transactions[2].value.customer_id # last.args.customer_id
    /\ last.core = <<transactions[1].value, transactions[3].value>>
    /\ transactions[1].value.status # transactions[3].value.status

----------------------------------------------------------------------------
(* Properties of validate_token, under SpecTok *)

\* the hour at which a stored token record expires
ExpiryOf(token_data) == token_data.expires_at[2]

\* C8: validate_token(t) returns None and leaves the store as it was when
\* t is not stored; returns None and leaves the stored record with
\* is_valid = false, as get_token_info(t) then shows, when t is stored
\* and the time is later than its expires_at; returns the stored record
\* when t is stored, is_valid is true and the time is not later than
\* expires_at.
C8_ValidateToken ==
    [][last'.op = "validate_token" =>
        LET t == last'.args.token
        IN  /\ ~dict_has(tokens, t) =>
                /\ last'.result = None
                /\ tokens' = tokens
            /\ (dict_has(tokens, t) /\ now > ExpiryOf(dict_item(tokens, t))) =>
                /\ last'.result = None
                /\ get_token_info(tokens', t) # None
                /\ get_token_info(tokens', t).is_valid = FALSE
            /\ (/\ dict_has(tokens, t)
                /\ dict_item(tokens, t).is_valid
                /\ now <= ExpiryOf(dict_item(tokens, t))) =>
                /\ last'.result = dict_item(tokens, t)
                /\ tokens' = tokens]_vars

\* a stored token was validated after its expiry: None was returned and
\* the record is now invalid
C8_Witness ==
    /\ last.op = "validate_token"
    /\ last.result = None
    /\ dict_has(tokens, last.args.token)
    /\ now > ExpiryOf(dict_item(tokens, last.args.token))
    /\ get_token_info(tokens, last.args.token).is_valid = FALSE

----------------------------------------------------------------------------
(* Properties of the REST application, under Spec *)

\* C9: after a card was tokenized and a payment with the returned token
\* was accepted, get_transaction on the returned transaction id gives a
\* record with the amount paid, the token used, the customer_id supplied
\* and card_info.last_four equal to the token's last_four_digits.
C9_RoundTrip ==
    (last.op = "POST /payments" /\ last.status = 201) =>
        LET got == api_get_transaction(transactions, last.body.transaction_id)
            token_data == get_token_info(tokens, last.args.token)
        IN  /\ got.status = 200
            /\ got.body.amount = last.args.amount
            /\ got.body.token = last.args.token
            /\ got.body.customer_id = last.args.customer_id
            /\ token_data # None
            /\ got.body.card_info.last_four = token_data.last_four_digits

\* 99.99 was paid for cust_2 with the token of the Mastercard number
\* (which ends in 9903), as the second payment made
C9_Witness ==
    /\ last.op = "POST /payments"
    /\ last.status = 201
    /\ last.args.amount = 99990
    /\ last.args.customer_id = "cust_2"
    /\ Len(transactions) = 2
    /\ get_transaction(transactions, last.body.transaction_id).card_info.last_four = <<"9", "9", "0", "3">>
    /\ get_token_info(tokens, last.args.token).last_four_digits = <<"9", "9", "0", "3">>

----------------------------------------------------------------------------
(* Properties of _identify_card_type, under SpecCard *)

\* s with its spaces and dashes removed
WithoutSpacesAndDashes(s) ==
    LET kept(ch) == ch # " " /\ ch # "-"
    IN  SelectSeq(s, kept)

\* s starts with the characters p
StartsWith(s, p) == Len(s) >= Len(p) /\ SubSeq(s, 1, Len(p)) = p

\* the prefixes of each card type
PrefixesOf(type) ==
    CASE type = "Visa" -> {<<"4">>}
      [] type = "Mastercard" -> {<<"5", "1">>, <<"5", "2">>, <<"5", "3">>, <<"5", "4">>, <<"5", "5">>}
      [] type = "American Express" -> {<<"3", "4">>, <<"3", "7">>}
      [] type = "Discover" -> {<<"6", "0", "1", "1">>, <<"6", "5">>}

CardTypes == {"Visa", "Mastercard", "American Express", "Discover"}

\* the card types one of whose prefixes s starts with
TypesOf(s) == {type \in CardTypes : \E p \in PrefixesOf(type) : StartsWith(s, p)}

\* the classification with the patterns tried in the opposite order
identify_in_reverse_order(card_number) ==
    LET clean == clean_number(card_number)
    IN  IF match_discover(clean) THEN "Discover"
        ELSE IF match_amex(clean) THEN "American Express"
        ELSE IF match_mastercard(clean) THEN "Mastercard"
        ELSE IF match_visa(clean) THEN "Visa"
        ELSE "Unknown"

\* C10: on the number without its spaces and dashes, prefix 4 gives Visa,
\* 51 to 55 Mastercard, 34 or 37 American Express, 6011 or 65 Discover,
\* anything else Unknown; no number has the prefix of two types, and the
\* order in which the patterns are tried does not change the result.
C10_CardType ==
    last.op = "_identify_card_type" =>
        LET types == TypesOf(WithoutSpacesAndDashes(last.args.card_number))
        IN  /\ Cardinality(types) <= 1
            /\ \A type \in CardTypes : last.result = type <=> type \in types
            /\ last.result = "Unknown" <=> types = {}
            /\ last.result = identify_in_reverse_order(last.args.card_number)

\* 6-011 was classified: Discover, through the dash
C10_Witness ==
    /\ last.op = "_identify_card_type"
    /\ last.args.card_number = <<"6", "-", "0", "1", "1">>
    /\ last.result = "Discover"

----------------------------------------------------------------------------
(* Properties of the payment endpoint and of request validation, under    *)
(* Spec                                                                   *)

\* the records of the store that process_payment made (a refund record
\* has a refund_id and no transaction_id)
PaymentsIn(store) ==
    {store[i].value : i \in {j \in 1..Len(store) : "transaction_id" \in DOMAIN store[j].value}}

\* the token is unknown, already marked invalid, or expired
TokenUnusable(store, token, t) ==
    \/ ~dict_has(store, token)
    \/ ~dict_item(store, token).is_valid
    \/ t > ExpiryOf(dict_item(store, token))

FailsCardValidation(card) ==
    LET clean == WithoutSpacesAndDashes(card.card_number)
    IN  \/ \E i \in 1..Len(clean) : clean[i] \notin DigitChars
        \/ Len(clean) \notin {15, 16}
        \/ Len(card.cvv) \notin {3, 4}
        \/ \E i \in 1..Len(card.cvv) : card.cvv[i] \notin DigitChars
        \/ card.expiry_month \notin 1..12

\* C12: a tokenize request whose card number, with spaces and dashes
\* removed, holds a non-digit or is not 15 or 16 long, whose CVV is not 3
\* to 4 digits or whose expiry month is outside 1..12, and a payment
\* request whose amount is not above 0, are answered 422 and leave the
\* token store and the transaction store as they were; every stored
\* payment has an amount above 0.
C12_BoundaryValidation ==
    /\ [](\A tx \in PaymentsIn(transactions) : tx.amount > 0)
    /\ [][((last'.op = "POST /tokenize" /\ FailsCardValidation(last'.args.card))
             \/ (last'.op = "POST /payments" /\ last'.args.amount <= 0)) =>
            /\ last'.status = 422
            /\ last'.core = None
            /\ tokens' = tokens
            /\ transactions' = transactions]_vars

\* a payment of amount 0 with a stored, valid, unexpired token was
\* answered 422 while the store holds an earlier payment of that token
C12_Witness ==
    /\ last.op = "POST /payments"
    /\ last.args.amount <= 0
    /\ last.status = 422
    /\ validate_token(tokens, last.args.token, now).result # None
    /\ Len(transactions) >= 1
    /\ transactions[1].value.token = last.args.token

\* C13: a payment request with amount above 0 and a token that is
\* stored, valid and not expired is answered 201 whether the simulated
\* outcome is success, failed or pending; the outcome is in the status
\* field of the body (failed for the amount 0.01); a new record with that
\* status is stored under the returned id and GET /transactions on that
\* id returns it.
C13_OutcomeIsNotAnError ==
    [][(/\ last'.op = "POST /payments"
        /\ last'.args.amount > 0
        /\ ~TokenUnusable(tokens, last'.args.token, now)) =>
        LET id == last'.body.transaction_id
            got == api_get_transaction(transactions', id)
        IN  /\ last'.status = 201
            /\ last'.body.status \in {"success", "failed", "pending"}
            /\ last'.args.amount = 10 => last'.body.status = "failed"
            /\ "detail" \notin DOMAIN last'.body
            /\ ~dict_has(transactions, id)
            /\ Len(transactions') = Len(transactions) + 1
            /\ got.status = 200
            /\ got.body.transaction_id = id
            /\ got.body.status = last'.body.status]_vars

\* a failed payment was answered 201 after a pending one, and both
\* records are stored with their status
C13_Witness ==
    /\ last.op = "POST /payments"
    /\ last.status = 201
    /\ last.body.status = "failed"
    /\ Len(transactions) = 2
    /\ transactions[1].value.status = "pending"
    /\ transactions[2].value.status = "failed"
    /\ transactions[2].key = last.body.transaction_id

----------------------------------------------------------------------------
(* Properties of the token information, under SpecTok *)

\* card holders and card number hashes a token record may hold
OtherHolders == {"John Doe", "Jane Roe"}

OtherHashes == {sha256_hex(VisaNumber), sha256_hex(clean_number(MastercardNumber))}

\* C14: the body of GET /tokens for a stored token has the fields token,
\* last_four_digits, card_type, expires_at, created_at and is_valid and
\* no other, so neither card_number_hash nor card_holder; the same body
\* is returned when the stored record holds another card holder or
\* another card number hash and is otherwise the same.
C14_TokenInfoStripped ==
    [][(last'.op = "GET /tokens" /\ dict_has(tokens, last'.args.token)) =>
        LET token == last'.args.token
            stored == dict_item(tokens, token)
        IN  /\ last'.status = 200
            /\ DOMAIN last'.body = {"token", "last_four_digits", "card_type", "expires_at", "created_at", "is_valid"}
            /\ "card_number_hash" \notin DOMAIN last'.body
            /\ "card_holder" \notin DOMAIN last'.body
            /\ \A holder \in OtherHolders, hash \in OtherHashes :
                   LET other == [stored EXCEPT !.card_holder = holder, !.card_number_hash = hash]
                   IN  api_get_token_info(dict_set(tokens, token, other), token).body = last'.body]_vars

\* the information of a stored token was returned: the stored record
\* holds the card holder and the hash, the body holds neither
C14_Witness ==
    /\ last.op = "GET /tokens"
    /\ last.status = 200
    /\ dict_item(tokens, last.args.token).card_holder = "John Doe"
    /\ dict_item(tokens, last.args.token).card_number_hash \in OtherHashes
    /\ last.body.token = last.args.token
    /\ last.body.last_four_digits = dict_item(tokens, last.args.token).last_four_digits
    /\ "card_holder" \notin DOMAIN last.body

\* C17: get_token_info leaves the token store as it was; it returns the
\* stored record as it is, so with is_valid = true for a token whose
\* expires_at has passed and which was not validated since, and None for
\* a token that is not stored.
C17_StaleFlag ==
    [][last'.op = "get_token_info" =>
        LET t == last'.args.token
        IN  /\ tokens' = tokens
            /\ dict_has(tokens, t) => last'.result = dict_item(tokens, t)
            /\ (/\ dict_has(tokens, t)
                /\ dict_item(tokens, t).is_valid
                /\ now > ExpiryOf(dict_item(tokens, t))) =>
                   last'.result # None /\ last'.result.is_valid = TRUE
            /\ ~dict_has(tokens, t) => last'.result = None]_vars

\* the information of a stored token was read after its expiry and
\* before any validation: is_valid is true in what was returned and in
\* the store
C17_Witness ==
    /\ last.op = "get_token_info"
    /\ dict_has(tokens, last.args.token)
    /\ now > ExpiryOf(dict_item(tokens, last.args.token))
    /\ last.result.is_valid = TRUE
    /\ dict_item(tokens, last.args.token).is_valid = TRUE

\* the hour at which a stored token record says it was created
CreationOf(token_data) == fromisoformat(token_data.created_at)

\* C18: for every stored token record, expires_at is created_at plus
\* exactly 24 hours, and the expires_at that tokenize_card returned is
\* the stored one.
C18_ExpiresAfter24Hours ==
    /\ \A i \in 1..Len(tokens) :
           ExpiryOf(tokens[i].value) = CreationOf(tokens[i].value) + TOKEN_LIFETIME_HOURS
    /\ last.op = "tokenize_card" =>
           last.result.expires_at = dict_item(tokens, last.result.token).expires_at

\* tokenize_card has just stored a record whose expires_at, the one it
\* returned, is earlier than 24 hours after its created_at: the clock
\* moved on between the reading of line 37 and the reading of line 49
C18_Witness ==
    /\ last.op = "tokenize_card"
    /\ dict_has(tokens, last.result.token)
    /\ last.result.expires_at = dict_item(tokens, last.result.token).expires_at
    /\ ExpiryOf(dict_item(tokens, last.result.token))
           < CreationOf(dict_item(tokens, last.result.token)) + TOKEN_LIFETIME_HOURS

----------------------------------------------------------------------------
(* Further properties of the PaymentProcessor, under SpecProc *)

\* C15: process_payment with an amount above 0 returns a transaction
\* with one of the three statuses; the store gains exactly one record,
\* under the returned transaction_id, which was no key before, and keeps
\* every other record as it was; get_transaction on the returned id
\* gives the returned record.  get_transaction on an id that is no key
\* of the store gives None, answered 404 by the handler, and on a stored
\* id the stored record.
C15_AlwaysATransaction ==
    /\ [][(last'.op = "process_payment" /\ last'.args.amount > 0) =>
            LET transaction == last'.result
                id == transaction.transaction_id
            IN  /\ transaction.status \in {"success", "failed", "pending"}
                /\ ~dict_has(transactions, id)
                /\ Len(transactions') = Len(transactions) + 1
                /\ dict_keys(transactions') = dict_keys(transactions) \cup {id}
                /\ \A k \in dict_keys(transactions) :
                       dict_item(transactions', k) = dict_item(transactions, k)
                /\ get_transaction(transactions', id) = transaction]_vars
    /\ [][last'.op = "GET /transactions" =>
            LET id == last'.args.transaction_id
            IN  /\ transactions' = transactions
                /\ dict_has(transactions, id) =>
                       last'.core = dict_item(transactions, id) /\ last'.status = 200
                /\ ~dict_has(transactions, id) =>
                       last'.core = None /\ last'.status = 404]_vars

\* an id that was never issued was asked for while the store holds
\* payments: 404
C15_Witness ==
    /\ last.op = "GET /transactions"
    /\ last.args.transaction_id = UnknownTransaction
    /\ last.status = 404
    /\ last.core = None
    /\ Len(transactions) >= 2
    /\ \A i \in 1..Len(transactions) :
           get_transaction(transactions, transactions[i].key) = transactions[i].value

\* the fields refund_transaction writes into the original
RefundLinkage == {"refunded", "refund_id"}

\* C16: in every step every stored record stays stored under its key (at
\* its place in the store), with every
\* field it has other than refunded and refund_id (so status, message,
\* amount, currency, customer_id and token) at the value it had, and
\* gains no field other than refunded and refund_id; a record changes
\* only in the refund of that very record.
C16_FixedAtCreation ==
    [][\A i \in 1..Len(transactions) :
        /\ i <= Len(transactions')
        /\ transactions'[i].key = transactions[i].key
        /\ \/ transactions'[i].value = transactions[i].value
           \/ /\ DOMAIN transactions[i].value \subseteq DOMAIN transactions'[i].value
              /\ (DOMAIN transactions'[i].value \ DOMAIN transactions[i].value) \subseteq RefundLinkage
              /\ \A f \in DOMAIN transactions[i].value \ RefundLinkage :
                     transactions'[i].value[f] = transactions[i].value[f]
              /\ {"status", "message", "amount", "currency", "customer_id"} \subseteq DOMAIN transactions[i].value
              /\ last'.op = "POST /refund"
              /\ last'.args.transaction_id = transactions[i].key
              /\ last'.status = 200]_vars

\* a payment was made after an earlier payment of 99.99 was refunded:
\* the earlier payment is stored as success with its amount, its token
\* and the two refund fields
C16_Witness ==
    /\ last.op = "process_payment"
    /\ Len(transactions) = 3
    /\ "transaction_id" \in DOMAIN transactions[1].value
    /\ "refunded" \in DOMAIN transactions[1].value
    /\ transactions[1].value.refunded
    /\ transactions[1].value.refund_id = transactions[2].key
    /\ transactions[1].value.status = "success"
    /\ transactions[1].value.amount = 99990
    /\ transactions[1].value.token = <<"tok", 1>>

\* C19: no stored record with status failed or pending has refunded =
\* true or a refund_id, and the original_transaction_id of every stored
\* refund record is the key of a stored record with status success.
C19_RefundedOnlyFromSuccess ==
    \A i \in 1..Len(transactions) :
        LET record == transactions[i].value
        IN  /\ record.status \in {"failed", "pending"} =>
                   /\ "refunded" \notin DOMAIN record
                   /\ "refund_id" \notin DOMAIN record
            /\ "original_transaction_id" \in DOMAIN record =>
                   /\ dict_has(transactions, record.original_transaction_id)
                   /\ dict_item(transactions, record.original_transaction_id).status = "success"

\* the refund of a failed payment has just been refused while the store
\* holds a refunded successful payment and its refund record
C19_Witness ==
    /\ last.op = "POST /refund"
    /\ last.status = 400
    /\ Len(transactions) = 3
    /\ dict_item(transactions, last.args.transaction_id).status = "failed"
    /\ "refunded" \notin DOMAIN dict_item(transactions, last.args.transaction_id)
    /\ \E i, j \in 1..Len(transactions) :
           /\ "original_transaction_id" \in DOMAIN transactions[j].value
           /\ transactions[j].value.original_transaction_id = transactions[i].key
           /\ "refunded" \in DOMAIN transactions[i].value
           /\ transactions[i].value.refunded
           /\ transactions[i].value.status = "success"

\* C20: refund_transaction on a stored transaction with status success
\* that is already refunded takes the success branch again: it returns
\* and stores a second refund record, under a new id, with the same
\* original_transaction_id; the first refund record stays as it was; the
\* refund_id of the original becomes the id of the second refund and
\* its refunded stays true.
C20_RefundedTwice ==
    [][(/\ RefundOf("success")
        /\ "refunded" \in DOMAIN dict_item(transactions, last'.args.transaction_id)
        /\ dict_item(transactions, last'.args.transaction_id).refunded) =>
        LET id == last'.args.transaction_id
            before == dict_item(transactions, id)
            first == dict_get(transactions, before.refund_id)
            second == last'.core
            after == dict_item(transactions', id)
        IN  /\ last'.status = 200
            /\ "refund_id" \in DOMAIN second
            /\ second.original_transaction_id = id
            /\ first # None
            /\ first.original_transaction_id = id
            /\ second.refund_id # before.refund_id
            /\ ~dict_has(transactions, second.refund_id)
            /\ dict_get(transactions', second.refund_id) = second
            /\ dict_get(transactions', before.refund_id) = first
            /\ Len(transactions') = Len(transactions) + 1
            /\ after.refund_id = second.refund_id
            /\ after.refund_id # before.refund_id
            /\ after.refunded = TRUE]_vars

\* one payment was refunded twice: the store holds the payment and two
\* refund records that name it, and the payment names the second
C20_Witness ==
    /\ last.op = "POST /refund"
    /\ last.status = 200
    /\ Len(transactions) = 3
    /\ last.args.transaction_id = transactions[1].key
    /\ "original_transaction_id" \in DOMAIN transactions[2].value
    /\ "original_transaction_id" \in DOMAIN transactions[3].value
    /\ transactions[2].value.original_transaction_id = transactions[1].key
    /\ transactions[3].value.original_transaction_id = transactions[1].key
    /\ transactions[1].value.refunded
    /\ transactions[1].value.refund_id = transactions[3].key

\* the record was made by process_payment
IsPayment(record) == "transaction_id" \in DOMAIN record

\* the record was made by refund_transaction
IsRefund(record) == "original_transaction_id" \in DOMAIN record

\* the record at position i carries the refunded flag, set
IsRefunded(store, i) ==
    "refunded" \in DOMAIN store[i].value /\ store[i].value.refunded

PaymentsOf(store, customer_id) ==
    {i \in 1..Len(store) : IsPayment(store[i].value) /\ store[i].value.customer_id = customer_id}

\* the positions of the refunds of a record of the customer
RefundsOf(store, customer_id) ==
    {i \in 1..Len(store) :
        /\ IsRefund(store[i].value)
        /\ dict_item(store, store[i].value.original_transaction_id).customer_id = customer_id}

\* C25: what get_customer_transactions(c) has just returned (the store
\* is as it was at the call, claim C7) holds one entry for every stored
\* payment made for c and one for every stored refund of a record of c,
\* and no other; every refund in the list comes after the record it
\* refunds, which is in the list too.
C25_RefundsAreListed ==
    last.op = "GET /customers/transactions" =>
        LET c == last.args.customer_id
            found == last.core
            listed == PaymentsOf(transactions, c) \cup RefundsOf(transactions, c)
        IN  /\ Len(found) = Cardinality(PaymentsOf(transactions, c)) + Cardinality(RefundsOf(transactions, c))
            /\ \A i \in listed : \E j \in 1..Len(found) : found[j] = transactions[i].value
            /\ \A j \in 1..Len(found) : \E i \in listed : found[j] = transactions[i].value
            /\ \A j \in 1..Len(found) :
                   IsRefund(found[j]) =>
                       \E k \in 1..(j - 1) :
                           found[k] = dict_item(transactions, found[j].original_transaction_id)

\* the transactions of a customer were listed: a payment and, after it,
\* its refund, while the store holds a payment of another customer too
C25_Witness ==
    /\ last.op = "GET /customers/transactions"
    /\ Len(last.core) = 2
    /\ IsPayment(last.core[1])
    /\ IsRefund(last.core[2])
    /\ last.core[2].original_transaction_id = last.core[1].transaction_id
    /\ last.core[2].customer_id = last.args.customer_id
    /\ Len(transactions) = 3
    /\ \E i \in 1..3 : transactions[i].value.customer_id # last.args.customer_id

----------------------------------------------------------------------------
(* Properties of the two stores together, under Spec *)

\* every key of the store before is a key of the store after, at the
\* same place
KeysKept(before, after) ==
    /\ Len(before) <= Len(after)
    /\ \A i \in 1..Len(before) : after[i].key = before[i].key

\* the store after is the store before with one entry more, under a key
\* that was none before
OneKeyAdded(before, after, key) ==
    /\ Len(after) = Len(before) + 1
    /\ after[Len(after)].key = key
    /\ \A i \in 1..Len(before) : before[i].key # key

\* C22: no step removes a key from the token store or from the
\* transaction store; an accepted tokenize adds exactly one token, an
\* accepted payment and an accepted refund add exactly one entry to the
\* transaction store, and every other step adds none.
C22_AppendOnly ==
    [][/\ KeysKept(tokens, tokens')
       /\ KeysKept(transactions, transactions')
       /\ IF last'.op = "POST /tokenize" /\ last'.status = 201
          THEN OneKeyAdded(tokens, tokens', last'.body.token)
          ELSE Len(tokens') = Len(tokens)
       /\ IF last'.op = "POST /payments" /\ last'.status = 201
          THEN OneKeyAdded(transactions, transactions', last'.body.transaction_id)
          ELSE IF last'.op = "POST /refund" /\ last'.status = 200
          THEN OneKeyAdded(transactions, transactions', last'.body.refund_id)
          ELSE Len(transactions') = Len(transactions)]_vars

\* a payment was refunded after its token had expired and had been
\* turned away: the token, now invalid, is still stored, and so are
\* the payment and its refund
C22_Witness ==
    /\ last.op = "POST /refund"
    /\ last.status = 200
    /\ Len(tokens) = 1
    /\ ~tokens[1].value.is_valid
    /\ now > ExpiryOf(tokens[1].value)
    /\ Len(transactions) = 2
    /\ transactions[1].value.token = tokens[1].key
    /\ transactions[2].key = last.body.refund_id

----------------------------------------------------------------------------
(* Properties of the life of a token, under SpecLife *)

\* C23: in every step every stored token record stays stored under its
\* key with every field other than is_valid at the value it had;
\* is_valid does not go from false to true; is_valid changes only in a
\* validate_token call on that token made at a time later than its
\* expires_at (so not when time passes, another card is tokenized,
\* get_token_info is called or the processor pays or refunds).
C23_OnlyTheFlagFlips ==
    [][\A i \in 1..Len(tokens) :
        /\ i <= Len(tokens')
        /\ tokens'[i].key = tokens[i].key
        /\ DOMAIN tokens'[i].value = DOMAIN tokens[i].value
        /\ \A f \in DOMAIN tokens[i].value \ {"is_valid"} :
               tokens'[i].value[f] = tokens[i].value[f]
        /\ tokens'[i].value.is_valid => tokens[i].value.is_valid
        /\ tokens'[i].value.is_valid # tokens[i].value.is_valid =>
               /\ last'.op = "validate_token"
               /\ last'.args.token = tokens[i].key
               /\ last'.result = None
               /\ now > ExpiryOf(tokens[i].value)]_vars

\* of two stored tokens the first has just been found expired and is
\* invalid, the second, of the other card, is valid; the processor
\* holds a payment
C23_Witness ==
    /\ last.op = "validate_token"
    /\ last.result = None
    /\ Len(tokens) = 2
    /\ last.args.token = tokens[1].key
    /\ ~tokens[1].value.is_valid
    /\ tokens[2].value.is_valid
    /\ tokens[2].value.card_type # tokens[1].value.card_type
    /\ tokens[1].value.created_at = isoformat(0)
    /\ Len(transactions) >= 1

----------------------------------------------------------------------------
(* Properties of interleaved refunds, under SpecRace *)

\* threads p and q have both returned from refund_transaction on the
\* same stored transaction, whose status is success
BothRefunded(p, q) ==
    /\ p # q
    /\ calls[p].pc = "done"
    /\ calls[q].pc = "done"
    /\ calls[p].transaction_id = calls[q].transaction_id
    /\ dict_has(transactions, calls[p].transaction_id)
    /\ dict_item(transactions, calls[p].transaction_id).status = "success"

\* C24: when two refund_transaction calls on the same successful
\* transaction interleave statement by statement, both return a refund
\* record of that transaction, the two records differ and are both in
\* the store, and the refund_id of the original is the one of the call
\* that wrote it last: the write of line 136 sets it to the id of the
\* writing call and no other statement changes it.
C24_LastWriterWins ==
    /\ [](\A p, q \in Threads : BothRefunded(p, q) =>
             LET id == calls[p].transaction_id
                 original == dict_item(transactions, id)
             IN  /\ "refund_id" \in DOMAIN calls[p].result
                 /\ "refund_id" \in DOMAIN calls[q].result
                 /\ calls[p].result.original_transaction_id = id
                 /\ calls[p].result.refund_id # calls[q].result.refund_id
                 /\ dict_has(transactions, calls[p].result.refund_id)
                 /\ dict_item(transactions, calls[p].result.refund_id).original_transaction_id = id
                 /\ original.refunded = TRUE
                 /\ original.refund_id \in {calls[p].result.refund_id, calls[q].result.refund_id})
    /\ [][\A i \in 1..Len(transactions) :
            LET before == transactions[i].value
                after == transactions'[i].value
                written == last'.op = "refund_transaction" /\ last'.line = 136
                              /\ calls[last'.thread].transaction_id = transactions[i].key
            IN  /\ written => after.refund_id = calls[last'.thread].refund.refund_id
                /\ ~written =>
                       /\ "refund_id" \in DOMAIN after <=> "refund_id" \in DOMAIN before
                       /\ "refund_id" \in DOMAIN after => after.refund_id = before.refund_id]_vars

\* both threads have refunded the payment: the store holds the payment
\* and two refund records, and the payment names the refund record that
\* was stored first, which is the result of the call that wrote its
\* refund_id last
C24_Witness ==
    /\ BothRefunded(1, 2)
    /\ Len(transactions) = 3
    /\ calls[1].transaction_id = transactions[1].key
    /\ transactions[2].value.original_transaction_id = transactions[1].key
    /\ transactions[3].value.original_transaction_id = transactions[1].key
    /\ transactions[1].value.refund_id = transactions[2].key
    /\ last.op = "refund_transaction"
    /\ last.line = 136
    /\ calls[last.thread].result.refund_id = transactions[2].key

----------------------------------------------------------------------------
(* Refunding a refund record, under SpecProc *)

\* C26: every stored refund record has status success, and when the
\* refund handler has just been called with the id of a refund record it
\* answered 200 with a further refund record, stored under its own id
\* with status success, whose original_transaction_id is the id of the
\* first refund record, and the first refund record has refunded = true.
C26_RefundOfARefund ==
    /\ \A i \in 1..Len(transactions) :
           IsRefund(transactions[i].value) => transactions[i].value.status = SUCCESS
    /\ (/\ last.op = "POST /refund"
        /\ dict_has(transactions, last.args.transaction_id)
        /\ IsRefund(dict_item(transactions, last.args.transaction_id))) =>
           LET id == last.args.transaction_id
               first == dict_item(transactions, id)
               further == last.core
           IN  /\ last.status = 200
               /\ IsRefund(further)
               /\ further.original_transaction_id = id
               /\ further.status = SUCCESS
               /\ further.refund_id # id
               /\ dict_get(transactions, further.refund_id) = further
               /\ "refunded" \in DOMAIN first
               /\ first.refunded = TRUE

\* a refund record was refunded: the store holds a payment, its refund
\* and a refund whose original_transaction_id names the first refund,
\* which is not a record made by process_payment
C26_Witness ==
    /\ last.op = "POST /refund"
    /\ last.status = 200
    /\ Len(transactions) = 3
    /\ IsPayment(transactions[1].value)
    /\ IsRefund(transactions[2].value)
    /\ transactions[2].value.original_transaction_id = transactions[1].key
    /\ last.args.transaction_id = transactions[2].key
    /\ IsRefund(transactions[3].value)
    /\ transactions[3].value.original_transaction_id = transactions[2].key
    /\ ~IsPayment(dict_item(transactions, transactions[3].value.original_transaction_id))
    /\ transactions[2].value.refunded

----------------------------------------------------------------------------
(* Special amounts and refunds, under SpecSpecial *)

\* lines 76-82: the amount is 0.01, 0.02, 0.03 or at least 10000
IsSpecialAmount(amount) ==
    \/ amount = AMOUNT_INSUFFICIENT_FUNDS
    \/ amount = AMOUNT_CARD_DECLINED
    \/ amount = AMOUNT_PENDING_VERIFICATION
    \/ amount >= AMOUNT_MANUAL_REVIEW

\* C27: in every reachable state a stored record whose amount is 0.01,
\* 0.02, 0.03 or at least 10000 is a payment with a status other than
\* success and without a refunded flag (so no refund record has such an
\* amount), and the refund handler, when it has just been called on such
\* a record, answered with the not-refundable result.
C27_SpecialAmountsNeverRefunded ==
    /\ \A i \in 1..Len(transactions) :
           IsSpecialAmount(transactions[i].value.amount) =>
               /\ IsPayment(transactions[i].value)
               /\ ~IsRefund(transactions[i].value)
               /\ transactions[i].value.status # SUCCESS
               /\ "refunded" \notin DOMAIN transactions[i].value
               /\ "refund_id" \notin DOMAIN transactions[i].value
    /\ (/\ last.op = "POST /refund"
        /\ dict_has(transactions, last.args.transaction_id)
        /\ IsSpecialAmount(dict_item(transactions, last.args.transaction_id).amount)) =>
           /\ last.core = NotRefundable
           /\ last.status = 400

\* a refund of a stored payment of 0.03 was asked for and turned away
C27_Witness ==
    /\ last.op = "POST /refund"
    /\ dict_has(transactions, last.args.transaction_id)
    /\ dict_item(transactions, last.args.transaction_id).amount = AMOUNT_PENDING_VERIFICATION
    /\ last.core = NotRefundable

----------------------------------------------------------------------------
(* The two stores are independent, under Spec *)

\* C28: a payment request that reaches process_payment (it is answered
\* neither 422 nor 401) and a refund request leave the token store as it
\* was; a tokenize request, and a payment request that validate_token
\* turns away, leave the transaction store as it was; a valid payment
\* request whose token is stored, marked valid and not expired is
\* accepted whatever its customer_id and however many payments the token
\* has made: one transaction is recorded for that customer, and the
\* token is as usable after the call as before.
C28_TokenNotConsumed ==
    [][/\ (last'.op = "POST /payments" /\ last'.status \notin {401, 422}) =>
              tokens' = tokens
       /\ last'.op = "POST /refund" => tokens' = tokens
       /\ last'.op = "POST /tokenize" => transactions' = transactions
       /\ (last'.op = "POST /payments" /\ last'.status = 401) =>
              transactions' = transactions
       /\ (/\ last'.op = "POST /payments"
           /\ payment_request_ok(last'.args.amount)
           /\ ~TokenUnusable(tokens, last'.args.token, now)) =>
              /\ last'.status # 401
              /\ Len(transactions') = Len(transactions) + 1
              /\ transactions'[Len(transactions')].value = last'.core
              /\ last'.core.token = last'.args.token
              /\ last'.core.customer_id = last'.args.customer_id
              /\ ~TokenUnusable(tokens', last'.args.token, now')]_vars

\* one token has paid twice, for two customers, and is still valid
C28_Witness ==
    /\ last.op = "POST /payments"
    /\ Len(transactions) = 2
    /\ IsPayment(transactions[1].value)
    /\ IsPayment(transactions[2].value)
    /\ transactions[1].value.token = transactions[2].value.token
    /\ transactions[1].value.customer_id # transactions[2].value.customer_id
    /\ ~TokenUnusable(tokens, transactions[2].value.token, now)

----------------------------------------------------------------------------
(* A token that was turned away, under SpecLife *)

\* validate_token has just returned None for a token that is stored
TurnedAway(i) ==
    /\ last.op = "validate_token"
    /\ last.args.token = tokens[i].key
    /\ last.result = None

\* C29: a stored token that validate_token has just turned away is
\* marked invalid; a token marked invalid stays stored and marked
\* invalid at every step, the clock never goes backwards, and a new
\* token gets a key of its own; and in every state validate_token
\* returns None for a token marked invalid, writing nothing, and the
\* REST payment endpoint answers 401 for it, recording nothing.  So a
\* stored token that was turned away once is turned away at every
\* later call.
C29_InvalidForGood ==
    /\ [](\A i \in 1..Len(tokens) :
             /\ TurnedAway(i) => ~tokens[i].value.is_valid
             /\ ~tokens[i].value.is_valid =>
                   /\ validate_token(tokens, tokens[i].key, now).result = None
                   /\ validate_token(tokens, tokens[i].key, now).tokens = tokens
                   /\ \A customer_id \in Customers :
                          LET r == api_process_payment(tokens, transactions, tokens[i].key, 99990, "USD", customer_id, NoDescription, 0, now)
                          IN  /\ r.status = 401
                              /\ r.tokens = tokens
                              /\ r.transactions = transactions)
    /\ [][/\ now' >= now
          /\ \A i \in 1..Len(tokens) :
                 /\ i <= Len(tokens')
                 /\ tokens'[i].key = tokens[i].key
                 /\ ~tokens[i].value.is_valid => ~tokens'[i].value.is_valid
          /\ \A j \in (Len(tokens) + 1)..Len(tokens') :
                 ~dict_has(tokens, tokens'[j].key)]_vars

\* the first token was found expired and marked invalid, a second token
\* was made after that, and the first token has just been turned away
\* again
C29_Witness ==
    /\ Len(tokens) = 2
    /\ TurnedAway(1)
    /\ ~tokens[1].value.is_valid
    /\ tokens[2].value.is_valid
    /\ fromisoformat(tokens[2].value.created_at) > ExpiryOf(tokens[1].value)
    /\ now <= ExpiryOf(tokens[2].value)

----------------------------------------------------------------------------
(* The stdio JSON-RPC server, under SpecStdio *)

\* the request names a tool
HasToolName(request) ==
    /\ "params" \in DOMAIN request
    /\ ~is_none(request.params)
    /\ ~no_tool_name(request.params)

\* C30: each turn of the loop appends what it wrote to stdout, so the
\* responses stand in the order of the requests; for a line that is a
\* JSON object the turn has written exactly one line, which carries the
\* id of the request: a result for initialize, for tools/list and for
\* tools/call with a tool name (the text of the tool inside it), error
\* -32602 for tools/call without a tool name, error -32601 for any
\* other method; for a line that is not valid JSON it has written
\* nothing.
C30_OneResponsePerRequest ==
    last.op = "main" =>
        LET line == last.line
            written == last.written
            request == line.value
        IN  /\ Len(stdout) >= Len(written)
            /\ \A k \in 1..Len(written) :
                   stdout[Len(stdout) - Len(written) + k] = written[k]
            /\ line.text = GarbageText => written = << >>
            /\ line.text = ObjectText =>
                   /\ Len(written) = 1
                   /\ written[1].id = request.id
                   /\ (method_is(request, "initialize") \/ method_is(request, "tools/list")) =>
                          "result" \in DOMAIN written[1]
                   /\ (method_is(request, "tools/call") /\ HasToolName(request)) =>
                          /\ "result" \in DOMAIN written[1]
                          /\ Len(written[1].result.content) = 1
                          /\ written[1].result.content[1].type = "text"
                   /\ (method_is(request, "tools/call") /\ ~HasToolName(request)) =>
                          /\ "error" \in DOMAIN written[1]
                          /\ written[1].error.code = -32602
                   /\ ~(\/ method_is(request, "initialize")
                        \/ method_is(request, "tools/list")
                        \/ method_is(request, "tools/call")) =>
                          /\ "error" \in DOMAIN written[1]
                          /\ written[1].error.code = -32601

\* the server has read a tools/call request whose params is null, a
\* JSON object with an id, and has written nothing
C30_Witness ==
    /\ last.op = "main"
    /\ last.line.text = ObjectText
    /\ method_is(last.line.value, "tools/call")
    /\ "params" \in DOMAIN last.line.value
    /\ is_none(last.line.value.params)
    /\ last.written = << >>
    /\ stdout = << >>

====
